---------------------------- MODULE Spec2Model ----------------------------
(***************************************************************************)
(* Model of the PatroRFID firmware (ESP32 + R200 UHF reader over UART +    *)
(* BLE application/OTA services).                                          *)
(*                                                                         *)
(*   - R200Driver (src/src/R200.cpp): frame encoder, byte accumulator and  *)
(*     dispatcher, tag parser, write-EPC encoder.                          *)
(*   - rfidTask / rfidWriteTask (src/src/rfid_handler.cpp), the BLE        *)
(*     application callback, bluetoothTask and the OTA callback/otaTask    *)
(*     (src/src/ble_comm.cpp).                                             *)
(*                                                                         *)
(* Bytes are naturals 0..255.  C++ arrays are 0-based; a TLA+ sequence s   *)
(* models an array a with a[i] = s[i+1].  Strings are sequences of         *)
(* one-character strings.                                                  *)
(***************************************************************************)
EXTENDS Integers, Sequences, FiniteSets, TLC

(***************************************************************************)
(* Program constants                                                       *)
(***************************************************************************)
FRAME_HEAD == 170

FRAME_END == 221

BUF_SIZE == 256

PACKET_SIZE == 64

PARAMS_SIZE == 64

MIN_FRAME == 7

CMD_POLL == 34

CMD_WRITE == 73

CMD_ERROR == 255

CMD_VERSION == 3

TYPE_NOTIFY == 2

(***************************************************************************)
(* Generic helpers                                                         *)
(***************************************************************************)
\* Sum of s[lo..hi]; the range is halved to keep the evaluation shallow
RECURSIVE SumRange(_, _, _)
SumRange(s, lo, hi) ==
    IF lo > hi THEN 0
    ELSE IF lo = hi THEN s[lo]
    ELSE LET mid == (lo + hi) \div 2
         IN  SumRange(s, lo, mid) + SumRange(s, mid + 1, hi)

SumSeq(s) == SumRange(s, 1, Len(s))

Max(a, b) == IF a >= b THEN a ELSE b

Min(a, b) == IF a <= b THEN a ELSE b

Fill(b, n) == [i \in 1..n |-> b]

\* a[i] of a C array modelled by the sequence s of the cells written so far
At(s, i) == s[i + 1]

\* a[i] = b, where the cells 0..Len(s)-1 have been written before
Store(s, i, b) ==
    IF i < Len(s) THEN [s EXCEPT ![i + 1] = b]
    ELSE s \o Fill(0, i - Len(s)) \o <<b>>

(***************************************************************************)
(* Arduino String helpers: String(b, HEX), toUpperCase                     *)
(***************************************************************************)
LowerDigits == <<"0", "1", "2", "3", "4", "5", "6", "7", "8", "9",
                 "a", "b", "c", "d", "e", "f">>

UpperDigits == <<"0", "1", "2", "3", "4", "5", "6", "7", "8", "9",
                 "A", "B", "C", "D", "E", "F">>

\* String(b, HEX): lower-case, no leading zero
StringHex(b) ==
    IF b < 16 THEN <<LowerDigits[b + 1]>>
    ELSE <<LowerDigits[(b \div 16) + 1], LowerDigits[(b % 16) + 1]>>

\* A faulty variant of the conversion (the text is left as String(b, HEX)
\* gives it): TagFrame9HasEightChars does not hold of a driver built on it
KeepCase(s) == s

toUpperCaseChar(c) ==
    IF \E i \in 11..16 : LowerDigits[i] = c
    THEN UpperDigits[CHOOSE i \in 11..16 : LowerDigits[i] = c]
    ELSE c

toUpperCase(s) == [i \in 1..Len(s) |-> toUpperCaseChar(s[i])]

(***************************************************************************)
(* R200Driver::calculateChecksum                                           *)
(***************************************************************************)
calculateChecksum(data) == SumSeq(data) % 256

(***************************************************************************)
(* R200Driver::sendCommand.  BuildPacket is the packet as the code         *)
(* assembles it in packet[64]; its length is the final value of idx.       *)
(***************************************************************************)
BuildPacket(type, cmd, params) ==
    LET Body(ps) == <<type, cmd, (Len(ps) \div 256) % 256, Len(ps) % 256>> \o ps
        Packet(body) == <<FRAME_HEAD>> \o body \o <<calculateChecksum(body)>>
                        \o <<FRAME_END>>
    IN  CHOOSE pkt \in {Packet(body) : body \in {Body(ps) : ps \in {params}}} : TRUE

\* The outcomes of sendCommand: what reaches the UART, and whether a store
\* went past packet[63].  A store past the array is undefined behaviour: the
\* build transmits the bytes it assembled, or faults before the write, or
\* transmits idx bytes of which those past packet[63], which lie outside the
\* array, no longer hold what was stored (overwritten: 0 stands for it).
sendCommand(type, cmd, params) ==
    LET Overwritten(pkt) == [i \in 1..Len(pkt) |->
                                IF i > PACKET_SIZE THEN 0 ELSE pkt[i]]
        Outcomes(pkt) ==
            IF Len(pkt) <= PACKET_SIZE
            THEN {[sent |-> pkt, oob |-> FALSE]}
            ELSE {[sent |-> pkt, oob |-> TRUE], [sent |-> <<>>, oob |-> TRUE],
                  [sent |-> Overwritten(pkt), oob |-> TRUE]}
    IN  UNION {Outcomes(pkt) : pkt \in {BuildPacket(type, cmd, params)}}

(***************************************************************************)
(* R200Driver state: _buffer holds the cells written so far (at most       *)
(* BUF_SIZE of them are inside the array), _bufferIndex and writeStatus.    *)
(***************************************************************************)
NewDriver == [_buffer |-> <<>>, _bufferIndex |-> 0, writeStatus |-> 0]

NoTag == [epc |-> <<>>, rssi |-> 0, valid |-> FALSE, unknown |-> 0]

(***************************************************************************)
(* R200Driver::parsePacket.  The loop reads pkt[8 + i] for i < epcLen.     *)
(* Cells below the high-water mark of _buffer hold what was stored there   *)
(* (possibly by an earlier frame); a read of a cell never written, or of   *)
(* memory past _buffer[255], yields an indeterminate byte: `unknown'       *)
(* counts those, and `epc' is the text of the bytes that are determined.   *)
(***************************************************************************)
EpcText(bytes) ==
    LET pieces == [i \in 1..Len(bytes) |->
                     IF bytes[i] < 16 THEN <<"0">> \o StringHex(bytes[i])
                     ELSE StringHex(bytes[i])]
    IN  toUpperCase([k \in 1..(2 * Len(bytes)) |-> pieces[(k + 1) \div 2][2 - (k % 2)]])

parsePacket(pkt, length) ==
    LET paramLen == At(pkt, 3) * 256 + At(pkt, 4)
        epcLen == paramLen - 5
        n == Max(epcLen, 0)
        known == Max(Min(n, Len(pkt) - 8), 0)
    IN  [epc     |-> EpcText([i \in 1..known |-> At(pkt, 8 + i - 1)]),
         rssi    |-> At(pkt, 5),
         valid   |-> TRUE,
         unknown |-> n - known]

\* Highest index parsePacket reads (pkt[5] when the EPC loop does not run)
parsePacketLastRead(pkt) ==
    LET epcLen == At(pkt, 3) * 256 + At(pkt, 4) - 5
    IN  IF epcLen > 0 THEN 8 + epcLen - 1 ELSE 5

(***************************************************************************)
(* R200Driver::processIncomingData, one iteration of its while loop on the *)
(* byte b.  Besides the new driver state the result tells what the         *)
(* iteration did: `ret' (the function returns true), `tag' (outputTag when *)
(* it was written), `stored' (the index b was stored at, -1 when b was     *)
(* discarded), `frame' (the accumulated bytes when a frame was dispatched, *)
(* <<>> otherwise).                                                        *)
(***************************************************************************)
\* A faulty variant of the guard (> for >=), which lets the index reach
\* BUF_SIZE: StoresInBounds does not hold of a driver built on it
OverflowGuardLate(idx) == IF idx > BUF_SIZE THEN 0 ELSE idx

\* if (_bufferIndex >= 256) _bufferIndex = 0;
OverflowGuard(idx) == IF idx >= BUF_SIZE THEN 0 ELSE idx

\* A faulty variant of the dispatch (the error code read one cell further,
\* at offset 6): DispatchOutcome does not hold of a driver built on it
DispatchCodeAtSix(d, buf, idx) ==
    LET cmd == At(buf, 2)
        type == At(buf, 1)
        frame == SubSeq(buf, 1, idx)
    IN  IF cmd = CMD_POLL /\ type = TYPE_NOTIFY
        THEN [drv |-> [d EXCEPT !._buffer = buf, !._bufferIndex = 0],
              ret |-> TRUE, tag |-> parsePacket(buf, idx), frame |-> frame]
        ELSE LET ws == IF cmd = CMD_WRITE THEN 1
                       ELSE IF cmd = CMD_ERROR THEN At(buf, 6)
                       ELSE d.writeStatus
             IN  [drv |-> [_buffer |-> buf, _bufferIndex |-> OverflowGuard(0),
                           writeStatus |-> ws],
                  ret |-> FALSE, tag |-> NoTag, frame |-> frame]

Dispatch(d, buf, idx) ==
    LET cmd == At(buf, 2)
        type == At(buf, 1)
        frame == SubSeq(buf, 1, idx)
    IN  IF cmd = CMD_POLL /\ type = TYPE_NOTIFY
        THEN [drv |-> [d EXCEPT !._buffer = buf, !._bufferIndex = 0],
              ret |-> TRUE, tag |-> parsePacket(buf, idx), frame |-> frame]
        ELSE LET ws == IF cmd = CMD_WRITE THEN 1
                       ELSE IF cmd = CMD_ERROR THEN At(buf, 5)
                       ELSE d.writeStatus
             IN  [drv |-> [_buffer |-> buf, _bufferIndex |-> OverflowGuard(0),
                           writeStatus |-> ws],
                  ret |-> FALSE, tag |-> NoTag, frame |-> frame]

ProcByte(d, b) ==
    IF d._bufferIndex = 0 /\ b # FRAME_HEAD
    THEN [drv |-> d, ret |-> FALSE, tag |-> NoTag, frame |-> <<>>, stored |-> -1]
    ELSE LET buf == Store(d._buffer, d._bufferIndex, b)
             idx == d._bufferIndex + 1
             r == IF b = FRAME_END /\ idx >= MIN_FRAME
                  THEN Dispatch(d, buf, idx)
                  ELSE [drv |-> [d EXCEPT !._buffer = buf,
                                          !._bufferIndex = OverflowGuard(idx)],
                        ret |-> FALSE, tag |-> NoTag, frame |-> <<>>]
         IN  [drv |-> r.drv, ret |-> r.ret, tag |-> r.tag, frame |-> r.frame,
              stored |-> d._bufferIndex]

(***************************************************************************)
(* The whole call processIncomingData(outputTag) on the bytes `avail' that *)
(* Serial2 has available: the loop runs until the bytes are used up or a   *)
(* tag frame makes it return true.  The result carries the bytes left in   *)
(* Serial2, the frames dispatched (in order), the highest index stored at  *)
(* and the highest index parsePacket read.                                 *)
(***************************************************************************)
NoCall == [drv |-> NewDriver, used |-> 0, ret |-> FALSE, tag |-> NoTag,
           frames |-> <<>>, maxStore |-> -1, lastRead |-> -1, frameLen |-> 0]

ProcOne(acc, b) ==
    CHOOSE y \in
      {[drv      |-> r.drv,
        used     |-> acc.used + 1,
        ret      |-> r.ret,
        tag      |-> r.tag,
        frames   |-> IF r.frame = <<>> THEN acc.frames ELSE Append(acc.frames, r.frame),
        maxStore |-> Max(acc.maxStore, r.stored),
        lastRead |-> IF r.ret THEN parsePacketLastRead(r.frame) ELSE acc.lastRead,
        frameLen |-> IF r.ret THEN Len(r.frame) ELSE acc.frameLen] :
         r \in {ProcByte(acc.drv, b)}} : TRUE

\* The iterations on avail[lo..hi], in order, stopping at a return.  The
\* range is halved to keep the evaluation shallow, and each intermediate
\* result is bound as a value (a in {...}) so that it is computed once.
RECURSIVE ProcLoop(_, _, _, _)
ProcLoop(acc, avail, lo, hi) ==
    IF acc.ret \/ lo > hi THEN acc
    ELSE IF lo = hi THEN ProcOne(acc, avail[lo])
    ELSE LET mid == (lo + hi) \div 2
         IN  CHOOSE y \in {ProcLoop(a, avail, mid + 1, hi) :
                             a \in {ProcLoop(acc, avail, lo, mid)}} : TRUE

ProcAll(d, bytes) ==
    CHOOSE y \in
      {[drv |-> r.drv, rest |-> SubSeq(bytes, r.used + 1, Len(bytes)), ret |-> r.ret,
        tag |-> r.tag, frames |-> r.frames, maxStore |-> r.maxStore,
        lastRead |-> r.lastRead, frameLen |-> r.frameLen] :
         r \in {ProcLoop([NoCall EXCEPT !.drv = d], bytes, 1, Len(bytes))}} : TRUE

processIncomingData(d, avail) ==
    CHOOSE y \in {ProcAll(a, bytes) : a \in {d}, bytes \in {avail}} : TRUE

(***************************************************************************)
(* R200Driver::hexCharToByte and R200Driver::writeEPC                      *)
(***************************************************************************)
hexCharToByte(c) ==
    IF \E i \in 1..10 : UpperDigits[i] = c
    THEN (CHOOSE i \in 1..10 : UpperDigits[i] = c) - 1
    ELSE IF \E i \in 11..16 : UpperDigits[i] = c
    THEN (CHOOSE i \in 11..16 : UpperDigits[i] = c) - 1
    ELSE IF \E i \in 11..16 : LowerDigits[i] = c
    THEN (CHOOSE i \in 11..16 : LowerDigits[i] = c) - 1
    ELSE 0

IsHexChar(c) == \E i \in 1..16 : UpperDigits[i] = c \/ LowerDigits[i] = c

\* strtoul(password, NULL, 16) on a string without sign, blanks or 0x prefix,
\* as the four bytes (most significant first) of the 32-bit result: the value
\* of the leading hex digits, ULONG_MAX when it does not fit 32 bits
RECURSIVE HexPrefix(_)
HexPrefix(s) ==
    IF s = <<>> \/ ~IsHexChar(Head(s)) THEN <<>>
    ELSE <<hexCharToByte(Head(s))>> \o HexPrefix(Tail(s))

RECURSIVE StripZeros(_)
StripZeros(n) == IF n # <<>> /\ Head(n) = 0 THEN StripZeros(Tail(n)) ELSE n

StrToUL16(s) ==
    LET Nibbles(sig) == IF Len(sig) > 8 THEN Fill(15, 8)
                        ELSE Fill(0, 8 - Len(sig)) \o sig
        Bytes(nib) == [k \in 1..4 |-> nib[2 * k - 1] * 16 + nib[2 * k]]
    IN  CHOOSE b \in {Bytes(nib) : nib \in {Nibbles(sig) : sig \in {StripZeros(HexPrefix(s))}}} : TRUE

\* A faulty variant of the validation (whole bytes instead of whole words):
\* RejectedEpcSendsNothing does not hold of a driver built on it
EpcRejectedBytes(newEPC) == Len(newEPC) % 2 # 0

\* the validation of writeEPC: TRUE when the request is rejected
EpcRejected(newEPC) == Len(newEPC) % 4 # 0

\* params[] as writeEPC fills it; its length is the final idx
WriteParams(newEPC, password) ==
    LET dataBytes == Len(newEPC) \div 2
        wordCount == dataBytes \div 2
        pwd == StrToUL16(password)
    IN  pwd \o <<1, 0, 2,
                 (wordCount \div 256) % 256, wordCount % 256>>
        \o [k \in 1..dataBytes |->
              hexCharToByte(newEPC[2 * k - 1]) * 16 + hexCharToByte(newEPC[2 * k])]

\* The outcomes of writeEPC: `sent' reaches the UART, `oob' tells that a
\* store went past params[63] or packet[63], `rejected' that the validation
\* returned early.
writeEPC(newEPC, password) ==
    IF EpcRejected(newEPC)
    THEN {[sent |-> <<>>, oob |-> FALSE, rejected |-> TRUE]}
    ELSE LET Outcomes(params) ==
                 {[sent |-> o.sent, oob |-> o.oob \/ Len(params) > PARAMS_SIZE,
                   rejected |-> FALSE] : o \in sendCommand(0, CMD_WRITE, params)}
         IN  UNION {Outcomes(params) : params \in {WriteParams(newEPC, password)}}

singlePoll == sendCommand(0, CMD_POLL, <<>>)

getHardwareVersion == sendCommand(0, CMD_VERSION, <<>>)

(***************************************************************************)
(* State.                                                                  *)
(*   rfid   the R200Driver object                                          *)
(*   rx     bytes Serial2 has available (UART, reader -> ESP32)            *)
(*   tx     frames written to Serial2 (UART, ESP32 -> reader)              *)
(*   res    what the last call of processIncomingData did; `ended' is the  *)
(*          well-formed frame its input ended with, when it used it all    *)
(*   call   the last call of a sending operation and its outcome           *)
(*   env    bookkeeping of the driver test bench: number of arrivals, the  *)
(*          last well-formed frame put on the line, the encode/decode      *)
(*          probe, the frames dispatched since the probe started, the      *)
(*          length of the current run of noise bytes the driver consumed,  *)
(*          the highest buffer index a byte was ever stored at; for the    *)
(*          tasks, how many BLE commands, button changes and reader        *)
(*          replies are still to come                                      *)
(***************************************************************************)
VARIABLES rfid, rx, tx, res, call, env,
          writeMode, dataToRecord, writeDataMutex, jsonDataQueue,
          buzzerSemaphore, button, rt, wt, app,
          ota, flash, ot, bluetoothConnected, client

\* the driver, its serial port and the bench bookkeeping
drvVars == <<rfid, rx, tx, res, call, env>>

\* the shared objects of the tasks (rtos_comm.h), the trigger button, and
\* the position and locals of rfidTask (rt), rfidWriteTask (wt) and of the
\* BLE application callback (app)
sysVars == <<writeMode, dataToRecord, writeDataMutex, jsonDataQueue,
             buzzerSemaphore, button, rt, wt, app>>

\* the OTA globals of ble_comm.cpp (ota; of the two part buffers only the
\* extent written so far), the image file (flash), the position of otaTask
\* and its last notification (ot), the connection flag of main.cpp, and the
\* BLE client's record of the transfer it is sending (client)
otaVars == <<ota, flash, ot, bluetoothConnected, client>>

vars == <<rfid, rx, tx, res, call, env,
          writeMode, dataToRecord, writeDataMutex, jsonDataQueue,
          buzzerSemaphore, button, rt, wt, app,
          ota, flash, ot, bluetoothConnected, client>>

(***************************************************************************)
(* State after setup(): the shared objects, the tasks about to enter their *)
(* loops, no BLE command being handled.                                    *)
(***************************************************************************)
\* xQueueCreate(5, sizeof(char[256]))
QUEUE_LENGTH == 5

\* xQueueSend(jsonDataQueue, &jsonString, (TickType_t)5) in rfidTask
READ_SEND_TICKS == 5

\* xQueueSend(jsonDataQueue, &responseJson, (TickType_t)10) in rfidWriteTask
WRITE_SEND_TICKS == 10

\* while (attempts < 5 && !success)
MAX_ATTEMPTS == 5

NoMsg == [type |-> "none", status |-> "", uid |-> <<>>, message |-> ""]

InitRt == [pc |-> "take", isWriteMode |-> FALSE, lastEPC |-> <<>>,
           msg |-> NoMsg, waited |-> 0, sent |-> "none"]

InitWt == [pc |-> "take", isWriteMode |-> FALSE, localDataToRecord |-> <<>>,
           triggerLocked |-> FALSE, epcToSend |-> <<>>, attempts |-> 0, timeouts |-> 0,
           success |-> FALSE, msg |-> NoMsg, waited |-> 0, sent |-> "none"]

NoCmd == [type |-> "", content |-> <<>>]

InitApp == [pc |-> "idle", cmd |-> NoCmd]

InitSys ==
    /\ writeMode = FALSE
    /\ dataToRecord = <<>>
    /\ writeDataMutex = "free"
    /\ jsonDataQueue = <<>>
    /\ buzzerSemaphore = 0
    /\ button = "HIGH"
    /\ rt = InitRt
    /\ wt = InitWt
    /\ app = InitApp

(***************************************************************************)
(* OTA globals of ble_comm.cpp after static initialisation                 *)
(***************************************************************************)
NORMAL_MODE == 0

UPDATE_MODE == 1

OTA_MODE == 2

InitOtaGlobals ==
    [sendMode |-> FALSE, sendSize |-> TRUE, writeFile |-> FALSE, request |-> FALSE,
     writeLen |-> 0, writeLen2 |-> 0, current |-> TRUE,
     parts |-> 0, cur |-> 0, MTU |-> 0, OTA_STATE |-> NORMAL_MODE,
     rParts |-> 0, tParts |-> 0, updater |-> 0, updater2 |-> 0]

\* the flash: /update.bin (size -1 when the file does not exist) and the
\* size of the image last handed to the updater (0: none)
NoFile == [size |-> -1, image |-> 0]

\* bound of the opcodes a client that follows no protocol writes
MaxOtaWrites == 4

\* otaTask at the top of its loop; notified and part are the first byte and
\* the part number of its last notification; buf, len and ret are the
\* arguments and the continuation of a writeBinary call in progress
InitOt == [pc |-> "switch", notified |-> 0, part |-> 0,
           buf |-> "", len |-> 0, ret |-> ""]

\* the client has announced nothing: expected bytes and parts announced,
\* parts completed, bytes of the completed parts; writes is the number of
\* opcodes a client that follows no protocol has still to write
NoClient == [pc |-> "idle", size |-> 0, parts |-> 0, done |-> 0, bytes |-> 0,
             writes |-> MaxOtaWrites]

InitOta ==
    /\ ota = InitOtaGlobals
    /\ flash = NoFile
    /\ ot = InitOt
    /\ bluetoothConnected = FALSE
    /\ client = NoClient

(***************************************************************************)
(* Bounds and input sets of the driver bench                               *)
(***************************************************************************)
MaxArrivals == 3

\* the inputs of the tasks' environment: BLE commands, button changes,
\* reader replies (and the same, fewer, when the queue starts full)
MaxCommands == 3

MaxToggles == 2

MaxReplies == 1

BacklogCommands == 2

MaxEpcLen == 6

\* single bytes: a header, a footer, a byte that is neither
SingleBytes == {FRAME_HEAD, FRAME_END, 0}

\* Frames as the reader sends them: the wire format of BuildPacket
TagFrame(rssi, epc) == BuildPacket(TYPE_NOTIFY, CMD_POLL, <<rssi, 48, 0>> \o epc \o <<18, 52>>)

AckFrame == BuildPacket(1, CMD_WRITE, <<0>>)

ErrFrame(code) == BuildPacket(1, CMD_ERROR, <<code>>)

VersionFrame == BuildPacket(1, CMD_VERSION, <<0, 82, 50>>)

WellFormed == {TagFrame(200, <<17, 34>>), TagFrame(201, <<226, 0, 10, 188>>),
               AckFrame, ErrFrame(22), VersionFrame}

\* Malformed input: a tag frame cut short, one declaring 65535 parameter
\* bytes, the start of a frame
Malformed == {<<FRAME_HEAD, TYPE_NOTIFY, CMD_POLL, 0, 9, 200, FRAME_END>>,
              <<FRAME_HEAD, TYPE_NOTIFY, CMD_POLL, 255, 255, 200, FRAME_END>>,
              <<FRAME_HEAD, TYPE_NOTIFY, CMD_POLL>>}

NoiseBytes == {0, CMD_POLL}

Chunks == {<<b>> : b \in SingleBytes} \cup WellFormed \cup Malformed

EpcOf(n) == [i \in 1..n |-> UpperDigits[((i - 1) % 16) + 1]]

EpcInputs == {EpcOf(n) : n \in 0..MaxEpcLen}
             \cup {EpcOf(4 * (PACKET_SIZE \div 4) + 36), EpcOf(4 * (PACKET_SIZE \div 4) + 48)}
             \cup {<<"a", "B", "g", "7">>}

Passwords == {<<"0", "0", "0", "0", "0", "0", "0", "0">>, <<"1", "A", "2", "b">>}

ProbeTypes == {0, TYPE_NOTIFY}

ProbeCmds == {CMD_POLL, CMD_WRITE, CMD_ERROR, CMD_VERSION}

ProbeParams == {<<>>, <<1>>, <<FRAME_HEAD>>, <<FRAME_END>>, <<1, 2>>, <<1, FRAME_END, 2>>,
                <<FRAME_END, 1, 2, 3, 4, 5, 6, 7>>, <<6, 5, 4, 3, 2, 1, 0, 9, 8>>}

NoProbe == [type |-> -1, cmd |-> -1, params |-> <<>>]

NoRes == [ended |-> <<>>, ret |-> FALSE, tag |-> NoTag, frames |-> <<>>,
          maxStore |-> -1, lastRead |-> -1, frameLen |-> 0]

NoSend == [op |-> "none", epc |-> <<>>, sent |-> <<>>, oob |-> FALSE, rejected |-> FALSE]

InitDrv ==
    /\ rfid = NewDriver
    /\ rx = <<>>
    /\ tx = <<>>
    /\ res = NoRes
    /\ call = NoSend
    /\ env = [arrivals |-> 0, lastFrame |-> <<>>, probe |-> NoProbe, seen |-> <<>>,
              run |-> 0, resync |-> FALSE, hiStore |-> -1,
              cmds |-> MaxCommands, toggles |-> MaxToggles, replies |-> MaxReplies]
    /\ InitSys
    /\ InitOta

(***************************************************************************)
(* Bench bookkeeping: the run of consecutive non-header, non-footer bytes  *)
(* the driver has consumed, and whether the byte consumed last is a header *)
(* that directly follows a run of at least BUF_SIZE such bytes.            *)
(***************************************************************************)
NoiseOne(g, b) ==
    [run    |-> IF b \in {FRAME_HEAD, FRAME_END} THEN 0 ELSE Min(g.run + 1, BUF_SIZE),
     resync |-> b = FRAME_HEAD /\ g.run >= BUF_SIZE]

RECURSIVE NoiseRange(_, _, _, _)
NoiseRange(g, s, lo, hi) ==
    IF lo > hi THEN g
    ELSE IF lo = hi THEN NoiseOne(g, s[lo])
    ELSE LET mid == (lo + hi) \div 2
         IN  CHOOSE y \in {NoiseRange(a, s, mid + 1, hi) :
                             a \in {NoiseRange(g, s, lo, mid)}} : TRUE

NoiseAfter(g, consumed) ==
    CHOOSE y \in {NoiseRange(a, c, 1, Len(c)) : a \in {g}, c \in {consumed}} : TRUE

(***************************************************************************)
(* Actions of the driver bench                                             *)
(***************************************************************************)
\* Bytes arrive on the UART
UartArrive(c) ==
    /\ env.arrivals < MaxArrivals
    /\ rx' = rx \o c
    /\ env' = [env EXCEPT !.arrivals = @ + 1,
                          !.lastFrame = IF c \in WellFormed THEN c ELSE <<>>]
    /\ UNCHANGED <<rfid, tx, res, call>>
    /\ UNCHANGED <<sysVars, otaVars>>

\* What a call of processIncomingData on the bytes `avail' leaves behind;
\* lastFrame is the well-formed frame `avail' ends with, if any
DrainResult(avail, lastFrame) ==
    LET r == processIncomingData(rfid, avail)
        consumed == SubSeq(avail, 1, Len(avail) - Len(r.rest))
        g == NoiseAfter([run |-> env.run, resync |-> env.resync], consumed)
    IN  [rfid   |-> r.drv,
         rx     |-> r.rest,
         res    |-> [ended |-> IF r.rest = <<>> THEN lastFrame ELSE <<>>,
                     ret |-> r.ret, tag |-> r.tag, frames |-> r.frames,
                     maxStore |-> r.maxStore, lastRead |-> r.lastRead,
                     frameLen |-> r.frameLen],
         seen   |-> env.seen \o r.frames,
         hiStore |-> Max(env.hiStore, r.maxStore),
         run    |-> g.run,
         resync |-> g.resync]

\* A caller runs processIncomingData on what is available
CallProcessIncomingData ==
    /\ rx # <<>>
    /\ LET n == DrainResult(rx, env.lastFrame)
       IN  /\ rfid' = n.rfid
           /\ rx' = n.rx
           /\ res' = n.res
           /\ env' = [env EXCEPT !.seen = n.seen, !.run = n.run, !.resync = n.resync,
                                 !.hiStore = n.hiStore]
    /\ UNCHANGED <<tx, call>>
    /\ UNCHANGED <<sysVars, otaVars>>

\* A burst of BUF_SIZE noise bytes arrives and a caller drains it
NoiseBurst(b) ==
    /\ env.arrivals < MaxArrivals
    /\ rx = <<>>
    /\ LET n == DrainResult(Fill(b, BUF_SIZE), <<>>)
       IN  /\ rfid' = n.rfid
           /\ rx' = n.rx
           /\ res' = n.res
           /\ env' = [env EXCEPT !.arrivals = @ + 1, !.lastFrame = <<>>,
                                 !.seen = n.seen, !.run = n.run, !.resync = n.resync,
                                 !.hiStore = n.hiStore]
    /\ UNCHANGED <<tx, call>>
    /\ UNCHANGED <<sysVars, otaVars>>

Transmit(o) == IF o.sent = <<>> THEN tx ELSE Append(tx, o.sent)

CallWriteEPC(newEPC, password) ==
    /\ env.arrivals < MaxArrivals
    /\ \E o \in writeEPC(newEPC, password) :
          /\ tx' = Transmit(o)
          /\ call' = [op |-> "writeEPC", epc |-> newEPC, sent |-> o.sent,
                      oob |-> o.oob, rejected |-> o.rejected]
    /\ env' = [env EXCEPT !.arrivals = @ + 1]
    /\ UNCHANGED <<rfid, rx, res>>
    /\ UNCHANGED <<sysVars, otaVars>>

CallSinglePoll ==
    /\ env.arrivals < MaxArrivals
    /\ \E o \in singlePoll :
          /\ tx' = Transmit(o)
          /\ call' = [op |-> "singlePoll", epc |-> <<>>, sent |-> o.sent,
                      oob |-> o.oob, rejected |-> FALSE]
    /\ env' = [env EXCEPT !.arrivals = @ + 1]
    /\ UNCHANGED <<rfid, rx, res>>
    /\ UNCHANGED <<sysVars, otaVars>>

CallGetHardwareVersion ==
    /\ env.arrivals < MaxArrivals
    /\ \E o \in getHardwareVersion :
          /\ tx' = Transmit(o)
          /\ call' = [op |-> "getHardwareVersion", epc |-> <<>>, sent |-> o.sent,
                      oob |-> o.oob, rejected |-> FALSE]
    /\ env' = [env EXCEPT !.arrivals = @ + 1]
    /\ UNCHANGED <<rfid, rx, res>>
    /\ UNCHANGED <<sysVars, otaVars>>

\* The encode/decode probe: the frame sendCommand builds for the probe's
\* type, command and params is looped back to the receive side of a driver
\* that is in Sync with nothing pending
EncodeAndFeed ==
    /\ env.probe # NoProbe
    /\ env.arrivals = 0
    /\ \E o \in sendCommand(env.probe.type, env.probe.cmd, env.probe.params) :
          /\ ~o.oob
          /\ rx' = o.sent
    /\ env' = [env EXCEPT !.arrivals = @ + 1]
    /\ UNCHANGED <<rfid, tx, res, call>>
    /\ UNCHANGED <<sysVars, otaVars>>

NextDrv ==
    \/ \E c \in Chunks : UartArrive(c)
    \/ \E b \in NoiseBytes : NoiseBurst(b)
    \/ CallProcessIncomingData

SpecDrv == InitDrv /\ [][NextDrv]_vars

(***************************************************************************)
(* The sending operations of the driver on their inputs                    *)
(***************************************************************************)
NextSend ==
    \/ \E e \in EpcInputs, p \in Passwords : CallWriteEPC(e, p)
    \/ CallSinglePoll
    \/ CallGetHardwareVersion

SpecSend == InitDrv /\ [][NextSend]_vars

(***************************************************************************)
(* The codec probe: Init draws type, command and params; the frame is      *)
(* encoded, looped back and decoded.                                       *)
(***************************************************************************)
InitCodec ==
    /\ rfid = NewDriver
    /\ rx = <<>>
    /\ tx = <<>>
    /\ res = NoRes
    /\ call = NoSend
    /\ \E t \in ProbeTypes, c \in ProbeCmds, p \in ProbeParams :
          env = [arrivals |-> 0, lastFrame |-> <<>>,
                 probe |-> [type |-> t, cmd |-> c, params |-> p], seen |-> <<>>,
                 run |-> 0, resync |-> FALSE, hiStore |-> -1,
              cmds |-> MaxCommands, toggles |-> MaxToggles, replies |-> MaxReplies]
    /\ InitSys
    /\ InitOta

NextCodec ==
    \/ EncodeAndFeed
    \/ CallProcessIncomingData

SpecCodec == InitCodec /\ [][NextCodec]_vars

(***************************************************************************)
(* The tasks.  FreeRTOS interleaves rfidTask and rfidWriteTask (same       *)
(* priority, time-sliced) and runs the BLE callback on the other core, so  *)
(* every step below may be followed by a step of any other task.  Delays   *)
(* and time windows are not measured: a window may end at any iteration.   *)
(***************************************************************************)
MaxTx == 1

\* Serial2 towards the reader: commands the reader has not answered yet.
\* Beyond MaxTx the reader has taken the oldest one without answering.
Wire(o) ==
    LET t == Transmit(o)
    IN  IF Len(t) > MaxTx THEN Tail(t) ELSE t

\* A faulty variant of the give (a counting semaphore): BuzzerIsEdgeSignal
\* does not hold of tasks built on it
xSemaphoreGiveCounting(count) == count + 1

\* xSemaphoreGive on the binary semaphore created by xSemaphoreCreateBinary:
\* the count becomes 1; when it is 1 already the call returns at once and
\* the count stays
xSemaphoreGive(count) == IF count = 0 THEN 1 ELSE count

\* A faulty variant of xQueueSend that waits as with portMAX_DELAY: a full
\* queue never makes it return.  BoundedQueueProducersGoOn does not hold
\* of producers built on it.
xQueueSendForever(queue, item, waited, ticksToWait) ==
    IF Len(queue) < QUEUE_LENGTH
    THEN [queue |-> Append(queue, item), ret |-> "pdTRUE", waited |-> waited]
    ELSE [queue |-> queue, ret |-> "blocked", waited |-> waited + 1]

\* xQueueSend(queue, item, ticksToWait) by a caller that has waited `waited'
\* ticks so far: the item is queued when there is room, the call returns
\* errQUEUE_FULL when the ticks are used up, else the caller stays blocked
\* for one more tick
xQueueSend(queue, item, waited, ticksToWait) ==
    IF Len(queue) < QUEUE_LENGTH
    THEN [queue |-> Append(queue, item), ret |-> "pdTRUE", waited |-> waited]
    ELSE IF waited >= ticksToWait
    THEN [queue |-> queue, ret |-> "errQUEUE_FULL", waited |-> waited]
    ELSE [queue |-> queue, ret |-> "blocked", waited |-> waited + 1]

\* rfidTask, lines 46-51: xSemaphoreTake(writeDataMutex, 10); when the mutex
\* stays held for the 10 ticks the take fails and isWriteMode keeps false
RfidTake ==
    /\ rt.pc = "take"
    /\ \/ /\ writeDataMutex = "free"
          /\ writeDataMutex' = "rfidTask"
          /\ rt' = [rt EXCEPT !.pc = "crit", !.isWriteMode = FALSE]
       \/ /\ writeDataMutex # "free"
          /\ rt' = [rt EXCEPT !.pc = "check", !.isWriteMode = FALSE]
          /\ UNCHANGED writeDataMutex
    /\ UNCHANGED <<drvVars, otaVars, writeMode, dataToRecord, jsonDataQueue,
                   buzzerSemaphore, button, wt, app>>

\* isWriteMode = writeMode; xSemaphoreGive(writeDataMutex)
RfidCrit ==
    /\ rt.pc = "crit"
    /\ rt' = [rt EXCEPT !.pc = "check", !.isWriteMode = writeMode]
    /\ writeDataMutex' = "free"
    /\ UNCHANGED <<drvVars, otaVars, writeMode, dataToRecord, jsonDataQueue,
                   buzzerSemaphore, button, wt, app>>

\* lines 55-65 and 121-133: skip in write mode; poll when the button is
\* pressed; otherwise clear lastEPC and drain Serial2
RfidCheck ==
    /\ rt.pc = "check"
    /\ IF rt.isWriteMode
       THEN /\ rt' = [rt EXCEPT !.pc = "take"]
            /\ UNCHANGED <<rfid, rx, tx>>
       ELSE IF button = "LOW"
       THEN /\ \E o \in singlePoll : tx' = Wire(o)
            /\ rt' = [rt EXCEPT !.pc = "win"]
            /\ UNCHANGED <<rfid, rx>>
       ELSE LET r == processIncomingData(rfid, rx)
            IN  /\ rfid' = r.drv
                /\ rx' = r.rest
                /\ rt' = [rt EXCEPT !.pc = "take", !.lastEPC = <<>>]
                /\ UNCHANGED tx
    /\ UNCHANGED <<res, call, env, otaVars, writeMode, dataToRecord, writeDataMutex,
                   jsonDataQueue, buzzerSemaphore, button, wt, app>>

ReadResult(tag) ==
    [type |-> "readResult", status |-> "ok", uid |-> tag.epc, message |-> ""]

\* A faulty variant of the window (every decoded tag is notified):
\* NotifyOnlyOnChange does not hold of a task built on it
RfidWindowNoFilter ==
    /\ rt.pc = "win"
    /\ \/ /\ rt' = [rt EXCEPT !.pc = "take"]
          /\ UNCHANGED <<rfid, rx>>
       \/ LET r == processIncomingData(rfid, rx)
          IN  /\ rfid' = r.drv
              /\ rx' = r.rest
              /\ IF r.ret
                 THEN rt' = [rt EXCEPT !.pc = "send", !.lastEPC = r.tag.epc,
                                       !.msg = ReadResult(r.tag), !.waited = 0]
                 ELSE UNCHANGED rt
    /\ UNCHANGED <<tx, res, call, env, otaVars, writeMode, dataToRecord, writeDataMutex,
                   jsonDataQueue, buzzerSemaphore, button, wt, app>>

\* lines 70-119, one evaluation of the while condition: the 60 ms are over,
\* or processIncomingData runs and a tag with a new EPC is to be notified
RfidWindow ==
    /\ rt.pc = "win"
    /\ \/ /\ rt' = [rt EXCEPT !.pc = "take"]
          /\ UNCHANGED <<rfid, rx>>
       \/ LET r == processIncomingData(rfid, rx)
          IN  /\ rfid' = r.drv
              /\ rx' = r.rest
              /\ IF r.ret /\ r.tag.epc # rt.lastEPC
                 THEN rt' = [rt EXCEPT !.pc = "send", !.lastEPC = r.tag.epc,
                                       !.msg = ReadResult(r.tag), !.waited = 0]
                 ELSE UNCHANGED rt
    /\ UNCHANGED <<tx, res, call, env, otaVars, writeMode, dataToRecord, writeDataMutex,
                   jsonDataQueue, buzzerSemaphore, button, wt, app>>

\* line 108: xQueueSend(jsonDataQueue, &jsonString, 5); the result is ignored
RfidSend ==
    /\ rt.pc = "send"
    /\ LET o == xQueueSend(jsonDataQueue, rt.msg, rt.waited, READ_SEND_TICKS)
       IN  /\ jsonDataQueue' = o.queue
           /\ rt' = IF o.ret = "blocked"
                    THEN [rt EXCEPT !.waited = o.waited]
                    ELSE [rt EXCEPT !.pc = "buzz", !.msg = NoMsg, !.waited = 0,
                                    !.sent = o.ret]
    /\ UNCHANGED <<drvVars, otaVars, writeMode, dataToRecord, writeDataMutex,
                   buzzerSemaphore, button, wt, app>>

\* line 111: xSemaphoreGive(buzzerSemaphore), then the window goes on
RfidBuzz ==
    /\ rt.pc = "buzz"
    /\ buzzerSemaphore' = xSemaphoreGive(buzzerSemaphore)
    /\ rt' = [rt EXCEPT !.pc = "win", !.sent = "none"]
    /\ UNCHANGED <<drvVars, otaVars, writeMode, dataToRecord, writeDataMutex,
                   jsonDataQueue, button, wt, app>>

rfidTask == RfidTake \/ RfidCrit \/ RfidCheck \/ RfidWindow \/ RfidSend \/ RfidBuzz

(***************************************************************************)
(* rfidWriteTask                                                           *)
(***************************************************************************)
\* character codes of the letters the model's texts use
CharCode(c) ==
    CASE c = "H" -> 72
      [] c = "i" -> 105
      [] OTHER   -> 63

RECURSIVE PadToWords(_)
PadToWords(hex) == IF Len(hex) % 4 # 0 THEN PadToWords(Append(hex, "0")) ELSE hex

\* textToHex: two uppercase hex digits per character, padded with "0" to a
\* multiple of 4
textToHex(text) ==
    PadToWords(EpcText([i \in 1..Len(text) |-> CharCode(text[i])]))

\* the request as rfidWriteTask hands it to writeEPC (lines 163-175)
EpcToSend(data) ==
    IF \E i \in 1..Len(data) : ~IsHexChar(data[i]) THEN textToHex(data) ELSE data

DefaultPassword == <<"0", "0", "0", "0", "0", "0", "0", "0">>

WriterTake ==
    /\ wt.pc = "take"
    /\ \/ /\ writeDataMutex = "free"
          /\ writeDataMutex' = "rfidWriteTask"
          /\ wt' = [wt EXCEPT !.pc = "crit", !.isWriteMode = FALSE,
                              !.localDataToRecord = <<>>]
       \/ /\ writeDataMutex # "free"
          /\ wt' = [wt EXCEPT !.pc = "check", !.isWriteMode = FALSE,
                              !.localDataToRecord = <<>>]
          /\ UNCHANGED writeDataMutex
    /\ UNCHANGED <<drvVars, otaVars, writeMode, dataToRecord, jsonDataQueue,
                   buzzerSemaphore, button, rt, app>>

WriterCrit ==
    /\ wt.pc = "crit"
    /\ wt' = [wt EXCEPT !.pc = "check", !.isWriteMode = writeMode,
                        !.localDataToRecord = dataToRecord]
    /\ writeDataMutex' = "free"
    /\ UNCHANGED <<drvVars, otaVars, writeMode, dataToRecord, jsonDataQueue,
                   buzzerSemaphore, button, rt, app>>

\* lines 156-182 and 259-264
WriterCheck ==
    /\ wt.pc = "check"
    /\ wt' = IF wt.isWriteMode /\ wt.localDataToRecord # <<>>
             THEN IF button = "LOW"
                  THEN IF ~wt.triggerLocked
                       THEN [wt EXCEPT !.pc = "attempt",
                                       !.epcToSend = EpcToSend(wt.localDataToRecord),
                                       !.attempts = 0, !.timeouts = 0,
                                       !.success = FALSE]
                       ELSE [wt EXCEPT !.pc = "take"]
                  ELSE [wt EXCEPT !.pc = "take", !.triggerLocked = FALSE]
             ELSE [wt EXCEPT !.pc = "take"]
    /\ UNCHANGED <<drvVars, otaVars, writeMode, dataToRecord, writeDataMutex,
                   jsonDataQueue, buzzerSemaphore, button, rt, app>>

\* a retry loop that goes on until a write succeeds
RetryUntilSuccess(attempts, success) == ~success

\* line 184: while (attempts < 5 && !success)
RetryCondition(attempts, success) == attempts < MAX_ATTEMPTS /\ ~success

\* A faulty variant of the attempt (no reset before the command):
\* StatusResetBeforeAttempt does not hold of a task built on it
KeepStatus(d) == d

\* line 196: rfid.writeStatus = 0
ResetStatus(d) == [d EXCEPT !.writeStatus = 0]

\* lines 184-197: the loop condition, then flush, writeStatus = 0, writeEPC
WriterAttempt ==
    /\ wt.pc = "attempt"
    /\ \/ /\ RetryCondition(wt.attempts, wt.success)
          /\ \E w \in {Wire(o) : o \in writeEPC(wt.epcToSend, DefaultPassword)} :
                tx' = w
          /\ wt' = [wt EXCEPT !.pc = "wait", !.attempts = @ + 1]
          /\ rx' = <<>>
          /\ rfid' = ResetStatus(rfid)
       \/ /\ ~RetryCondition(wt.attempts, wt.success)
          /\ wt' = [wt EXCEPT !.pc = "report"]
          /\ UNCHANGED <<rfid, rx, tx>>
    /\ UNCHANGED <<res, call, env, otaVars, writeMode, dataToRecord, writeDataMutex,
                   jsonDataQueue, buzzerSemaphore, button, rt, app>>

\* lines 201-208, one evaluation of the while condition: the 800 ms are
\* over (position "expired" when no response has come, with the count of
\* such attempts in timeouts), or processIncomingData runs and the loop
\* breaks on a writeStatus
WriterWait ==
    /\ wt.pc = "wait"
    /\ \/ /\ wt' = IF rfid.writeStatus = 0
                   THEN [wt EXCEPT !.pc = "expired", !.timeouts = @ + 1]
                   ELSE [wt EXCEPT !.pc = "verify"]
          /\ UNCHANGED <<rfid, rx>>
       \/ LET r == processIncomingData(rfid, rx)
          IN  /\ rfid' = r.drv
              /\ rx' = r.rest
              /\ wt' = IF r.drv.writeStatus # 0 THEN [wt EXCEPT !.pc = "verify"] ELSE wt
    /\ UNCHANGED <<tx, res, call, env, otaVars, writeMode, dataToRecord, writeDataMutex,
                   jsonDataQueue, buzzerSemaphore, button, rt, app>>

\* lines 211-219
WriterVerify ==
    /\ wt.pc \in {"verify", "expired"}
    /\ wt' = [wt EXCEPT !.pc = "attempt", !.success = (rfid.writeStatus = 1)]
    /\ UNCHANGED <<drvVars, otaVars, writeMode, dataToRecord, writeDataMutex,
                   jsonDataQueue, buzzerSemaphore, button, rt, app>>

\* the message of lines 240-248
WriteErrorMessage(status) ==
    IF status = 16 THEN "Erro: Tag nao encontrada (proxime mais)"
    ELSE IF status = 22 THEN "Erro: Acesso Negado"
    ELSE "Falha apos 5 tentativas. Aproxime a tag."

\* lines 223-250: the outcome message; on success the first beep
WriterReport ==
    /\ wt.pc = "report"
    /\ IF wt.success
       THEN /\ wt' = [wt EXCEPT !.pc = "beep",
                                !.msg = [type |-> "writeResult", status |-> "ok",
                                         uid |-> wt.epcToSend,
                                         message |-> "Gravado com Sucesso!"]]
            /\ buzzerSemaphore' = xSemaphoreGive(buzzerSemaphore)
       ELSE /\ wt' = [wt EXCEPT !.pc = "send", !.waited = 0,
                                !.msg = [type |-> "feedback", status |-> "error",
                                         uid |-> <<>>,
                                         message |-> WriteErrorMessage(rfid.writeStatus)]]
            /\ UNCHANGED buzzerSemaphore
    /\ UNCHANGED <<drvVars, otaVars, writeMode, dataToRecord, writeDataMutex,
                   jsonDataQueue, button, rt, app>>

\* line 236: the second beep, 100 ms later
WriterBeep ==
    /\ wt.pc = "beep"
    /\ buzzerSemaphore' = xSemaphoreGive(buzzerSemaphore)
    /\ wt' = [wt EXCEPT !.pc = "send", !.waited = 0]
    /\ UNCHANGED <<drvVars, otaVars, writeMode, dataToRecord, writeDataMutex,
                   jsonDataQueue, button, rt, app>>

\* line 254: xQueueSend(jsonDataQueue, &responseJson, 10); the result is
\* ignored
WriterSend ==
    /\ wt.pc = "send"
    /\ LET o == xQueueSend(jsonDataQueue, wt.msg, wt.waited, WRITE_SEND_TICKS)
       IN  /\ jsonDataQueue' = o.queue
           /\ wt' = IF o.ret = "blocked"
                    THEN [wt EXCEPT !.waited = o.waited]
                    ELSE [wt EXCEPT !.pc = "lock", !.msg = NoMsg, !.waited = 0,
                                    !.sent = o.ret]
    /\ UNCHANGED <<drvVars, otaVars, writeMode, dataToRecord, writeDataMutex,
                   buzzerSemaphore, button, rt, app>>

\* A faulty variant of the end of the cycle (the pending data is consumed by
\* the write): WriteCycleKeepsData does not hold of a task built on it
WriterLockClearsData ==
    /\ wt.pc = "lock"
    /\ wt' = [wt EXCEPT !.pc = "take", !.sent = "none", !.triggerLocked = TRUE,
                        !.epcToSend = <<>>, !.attempts = 0, !.timeouts = 0,
                        !.success = FALSE]
    /\ dataToRecord' = <<>>
    /\ UNCHANGED <<drvVars, otaVars, writeMode, writeDataMutex,
                   jsonDataQueue, buzzerSemaphore, button, rt, app>>

\* line 256: triggerLocked = true, and the cycle is over
WriterLock ==
    /\ wt.pc = "lock"
    /\ wt' = [wt EXCEPT !.pc = "take", !.sent = "none", !.triggerLocked = TRUE,
                        !.epcToSend = <<>>, !.attempts = 0, !.timeouts = 0,
                        !.success = FALSE]
    /\ UNCHANGED <<drvVars, otaVars, writeMode, dataToRecord, writeDataMutex,
                   jsonDataQueue, buzzerSemaphore, button, rt, app>>

rfidWriteTask ==
    \/ WriterTake
    \/ WriterCrit
    \/ WriterCheck
    \/ WriterAttempt
    \/ WriterWait
    \/ WriterVerify
    \/ WriterReport
    \/ WriterBeep
    \/ WriterSend
    \/ WriterLock

(***************************************************************************)
(* AppCallbacks::onWrite, one invocation per command written by the BLE    *)
(* client; the BLE stack runs one invocation at a time.                    *)
(***************************************************************************)
WriteData == {<<"H", "i">>}

AppCommands ==
    {[type |-> "changeMode", content |-> <<"write">>],
     [type |-> "changeMode", content |-> <<"stop">>]}
    \cup {[type |-> "writeData", content |-> d] : d \in WriteData}

\* lines 177-198: the command is parsed
AppReceive(cmd) ==
    /\ app.pc = "idle"
    /\ env.cmds > 0
    /\ env' = [env EXCEPT !.cmds = @ - 1]
    /\ app' = [pc |-> "take", cmd |-> cmd]
    /\ UNCHANGED <<rfid, rx, tx, res, call, otaVars, writeMode, dataToRecord, writeDataMutex,
                   jsonDataQueue, buzzerSemaphore, button, rt, wt>>

\* line 200: xSemaphoreTake(writeDataMutex, portMAX_DELAY)
AppTake ==
    /\ app.pc = "take"
    /\ writeDataMutex = "free"
    /\ writeDataMutex' = "onWrite"
    /\ app' = [app EXCEPT !.pc = "crit"]
    /\ UNCHANGED <<drvVars, otaVars, writeMode, dataToRecord, jsonDataQueue,
                   buzzerSemaphore, button, rt, wt>>

\* A faulty variant of the critical section ({changeMode, stop} leaves the
\* pending data in place): DataOnlyInWriteMode does not hold of a callback
\* built on it
AppCritKeepsData ==
    /\ app.pc = "crit"
    /\ IF app.cmd.type = "changeMode" /\ app.cmd.content = <<"write">>
       THEN writeMode' = TRUE /\ dataToRecord' = <<>>
       ELSE IF app.cmd.type = "changeMode" /\ app.cmd.content = <<"stop">>
       THEN writeMode' = FALSE /\ UNCHANGED dataToRecord
       ELSE IF app.cmd.type = "writeData" /\ writeMode
       THEN dataToRecord' = app.cmd.content /\ UNCHANGED writeMode
       ELSE UNCHANGED <<writeMode, dataToRecord>>
    /\ writeDataMutex' = "free"
    /\ app' = [app EXCEPT !.pc = "notify"]
    /\ UNCHANGED <<drvVars, otaVars, jsonDataQueue, buzzerSemaphore, button, rt, wt>>

\* lines 201-228
AppCrit ==
    /\ app.pc = "crit"
    /\ IF app.cmd.type = "changeMode" /\ app.cmd.content = <<"write">>
       THEN writeMode' = TRUE /\ dataToRecord' = <<>>
       ELSE IF app.cmd.type = "changeMode" /\ app.cmd.content = <<"stop">>
       THEN writeMode' = FALSE /\ dataToRecord' = <<>>
       ELSE IF app.cmd.type = "writeData" /\ writeMode
       THEN dataToRecord' = app.cmd.content /\ UNCHANGED writeMode
       ELSE UNCHANGED <<writeMode, dataToRecord>>
    /\ writeDataMutex' = "free"
    /\ app' = [app EXCEPT !.pc = "notify"]
    /\ UNCHANGED <<drvVars, otaVars, jsonDataQueue, buzzerSemaphore, button, rt, wt>>

\* lines 231-234: the feedback is notified, xSemaphoreGive(buzzerSemaphore)
AppNotify ==
    /\ app.pc = "notify"
    /\ buzzerSemaphore' = xSemaphoreGive(buzzerSemaphore)
    /\ app' = InitApp
    /\ UNCHANGED <<drvVars, otaVars, writeMode, dataToRecord, writeDataMutex,
                   jsonDataQueue, button, rt, wt>>

(***************************************************************************)
(* bluetoothTask, buzzerTask and the environment: the R200 reader on the   *)
(* other end of Serial2 and the trigger button.                            *)
(***************************************************************************)
\* xQueueReceive(jsonDataQueue, &receivedJson, portMAX_DELAY), then notify
bluetoothTask ==
    /\ jsonDataQueue # <<>>
    /\ jsonDataQueue' = Tail(jsonDataQueue)
    /\ UNCHANGED <<drvVars, otaVars, writeMode, dataToRecord, writeDataMutex,
                   buzzerSemaphore, button, rt, wt, app>>

\* xSemaphoreTake(buzzerSemaphore, portMAX_DELAY), then the beep
buzzerTask ==
    /\ buzzerSemaphore > 0
    /\ buzzerSemaphore' = buzzerSemaphore - 1
    /\ UNCHANGED <<drvVars, otaVars, writeMode, dataToRecord, writeDataMutex,
                   jsonDataQueue, button, rt, wt, app>>

\* What the reader may answer to a command: a tag notification or an error
\* frame to a poll, an acknowledgement or an error frame to a write, or
\* nothing
Replies(command) ==
    IF At(command, 2) = CMD_POLL
    THEN {TagFrame(200, <<17, 34>>), ErrFrame(21), <<>>}
    ELSE IF At(command, 2) = CMD_WRITE
    THEN {AckFrame, ErrFrame(16), ErrFrame(179), <<>>}
    ELSE {<<>>}

\* The reader takes the oldest command and answers on an idle line
ReaderRespond ==
    /\ tx # <<>>
    /\ rx = <<>>
    /\ tx' = Tail(tx)
    /\ \E f \in Replies(Head(tx)) :
          /\ rx' = f
          /\ f # <<>> => env.replies > 0
          /\ env' = [env EXCEPT !.replies = IF f = <<>> THEN @ ELSE @ - 1]
    /\ UNCHANGED <<rfid, res, call, sysVars, otaVars>>

ButtonPress ==
    /\ button = "HIGH"
    /\ env.toggles > 0
    /\ env' = [env EXCEPT !.toggles = @ - 1]
    /\ button' = "LOW"
    /\ UNCHANGED <<rfid, rx, tx, res, call, otaVars, writeMode, dataToRecord, writeDataMutex,
                   jsonDataQueue, buzzerSemaphore, rt, wt, app>>

ButtonRelease ==
    /\ button = "LOW"
    /\ env.toggles > 0
    /\ env' = [env EXCEPT !.toggles = @ - 1]
    /\ button' = "HIGH"
    /\ UNCHANGED <<rfid, rx, tx, res, call, otaVars, writeMode, dataToRecord, writeDataMutex,
                   jsonDataQueue, buzzerSemaphore, rt, wt, app>>

AppCallbacks ==
    \/ \E cmd \in AppCommands : AppReceive(cmd)
    \/ AppTake
    \/ AppCrit
    \/ AppNotify

Init == InitDrv

Next ==
    \/ rfidTask
    \/ rfidWriteTask
    \/ AppCallbacks
    \/ bluetoothTask
    \/ buzzerTask
    \/ ReaderRespond
    \/ ButtonPress
    \/ ButtonRelease

Spec == Init /\ [][Next]_vars

(***************************************************************************)
(* MyCallbacks::onWrite of main.cpp, the callback that setup() registers   *)
(* on the characteristic.  It parses, takes the mutex and notifies as      *)
(* AppCallbacks::onWrite does; inside the critical section every branch    *)
(* also writes a line to the console with Serial.println, a transmit on    *)
(* UART0 that returns once the line is in the transmit FIFO.               *)
(***************************************************************************)
\* lines 152-220: the branch assigns the shared state and calls
\* Serial.println with writeDataMutex held
MyCrit ==
    /\ app.pc = "crit"
    /\ IF app.cmd.type = "changeMode" /\ app.cmd.content = <<"write">>
       THEN writeMode' = TRUE /\ dataToRecord' = <<>>
       ELSE IF app.cmd.type = "changeMode" /\ app.cmd.content = <<"stop">>
       THEN writeMode' = FALSE /\ dataToRecord' = <<>>
       ELSE IF app.cmd.type = "writeData" /\ writeMode
       THEN dataToRecord' = app.cmd.content /\ UNCHANGED writeMode
       ELSE UNCHANGED <<writeMode, dataToRecord>>
    /\ app' = [app EXCEPT !.pc = "println"]
    /\ UNCHANGED <<drvVars, otaVars, writeDataMutex, jsonDataQueue, buzzerSemaphore,
                   button, rt, wt>>

\* Serial.println returns; line 221: xSemaphoreGive(writeDataMutex)
MyPrintln ==
    /\ app.pc = "println"
    /\ writeDataMutex' = "free"
    /\ app' = [app EXCEPT !.pc = "notify"]
    /\ UNCHANGED <<drvVars, otaVars, writeMode, dataToRecord, jsonDataQueue,
                   buzzerSemaphore, button, rt, wt>>

MyCallbacks ==
    \/ \E cmd \in AppCommands : AppReceive(cmd)
    \/ AppTake
    \/ MyCrit
    \/ MyPrintln
    \/ AppNotify

NextMain ==
    \/ rfidTask
    \/ rfidWriteTask
    \/ MyCallbacks
    \/ bluetoothTask
    \/ buzzerTask
    \/ ReaderRespond
    \/ ButtonPress
    \/ ButtonRelease

SpecMain == Init /\ [][NextMain]_vars

(***************************************************************************)
(* The tasks with bluetoothTask fallen behind by a full queue: the device  *)
(* has read the same tag on QUEUE_LENGTH presses of the button, the button *)
(* is released again and both tasks are at the head of their loops.        *)
(***************************************************************************)
BacklogTag == TagFrame(200, <<17, 34>>)

InitBacklog ==
    /\ rfid = processIncomingData(NewDriver, BacklogTag).drv
    /\ rx = <<>>
    /\ tx = <<>>
    /\ res = NoRes
    /\ call = NoSend
    /\ env = [arrivals |-> 0, lastFrame |-> <<>>, probe |-> NoProbe, seen |-> <<>>,
              run |-> 0, resync |-> FALSE, hiStore |-> -1,
              cmds |-> BacklogCommands, toggles |-> MaxToggles, replies |-> MaxReplies]
    /\ writeMode = FALSE
    /\ dataToRecord = <<>>
    /\ writeDataMutex = "free"
    /\ jsonDataQueue = [i \in 1..QUEUE_LENGTH |->
                          ReadResult(processIncomingData(NewDriver, BacklogTag).tag)]
    /\ buzzerSemaphore = 0
    /\ button = "HIGH"
    /\ rt = InitRt
    /\ wt = InitWt
    /\ app = InitApp
    /\ InitOta

SpecBacklog == InitBacklog /\ [][Next]_vars

\* The firmware after the client has sent {changeMode, write} and
\* {writeData, d}: write mode with data to record, the trigger not pressed
InitArmed ==
    /\ rfid = NewDriver
    /\ rx = <<>>
    /\ tx = <<>>
    /\ res = NoRes
    /\ call = NoSend
    /\ env = [arrivals |-> 0, lastFrame |-> <<>>, probe |-> NoProbe, seen |-> <<>>,
              run |-> 0, resync |-> FALSE, hiStore |-> -1,
              cmds |-> 0, toggles |-> MaxToggles, replies |-> MaxReplies]
    /\ writeMode = TRUE
    /\ dataToRecord \in WriteData
    /\ writeDataMutex = "free"
    /\ jsonDataQueue = <<>>
    /\ buzzerSemaphore = 0
    /\ button = "HIGH"
    /\ rt = InitRt
    /\ wt = InitWt
    /\ app = InitApp
    /\ InitOta

\* The tasks while the client sends no further command: the mode stays
\* write mode, so rfidTask only samples the mode and sleeps
NextArmed ==
    \/ RfidTake \/ RfidCrit \/ RfidCheck
    \/ rfidWriteTask \/ bluetoothTask \/ buzzerTask
    \/ ReaderRespond \/ ButtonPress \/ ButtonRelease

\* rfidWriteTask is a task of the scheduler (time-sliced with rfidTask at
\* priority 2): it is not starved
SpecArmed == InitArmed /\ [][NextArmed]_vars /\ WF_vars(rfidWriteTask)

(***************************************************************************)
(* The armed firmware with a trigger that is pressed, released and pressed *)
(* again.                                                                  *)
(***************************************************************************)
TriggerToggles == 3

InitTrigger ==
    /\ rfid = NewDriver
    /\ rx = <<>>
    /\ tx = <<>>
    /\ res = NoRes
    /\ call = NoSend
    /\ env = [arrivals |-> 0, lastFrame |-> <<>>, probe |-> NoProbe, seen |-> <<>>,
              run |-> 0, resync |-> FALSE, hiStore |-> -1,
              cmds |-> 0, toggles |-> TriggerToggles, replies |-> MaxReplies]
    /\ writeMode = TRUE
    /\ dataToRecord \in WriteData
    /\ writeDataMutex = "free"
    /\ jsonDataQueue = <<>>
    /\ buzzerSemaphore = 0
    /\ button = "HIGH"
    /\ rt = InitRt
    /\ wt = InitWt
    /\ app = InitApp
    /\ InitOta

SpecTrigger == InitTrigger /\ [][NextArmed]_vars /\ WF_vars(rfidWriteTask)

(***************************************************************************)
(* The firmware in read mode with a reader that has two tags in its field: *)
(* a poll is answered with the notification of one of them or with         *)
(* nothing.  InitRead is the state after boot with no command to come from *)
(* the client; InitReadModes lets the client change the mode.              *)
(***************************************************************************)
ReadReplies == 2

ModeChanges == 2

ReadTags == {TagFrame(200, <<17, 34>>), TagFrame(201, <<226, 0, 10, 188>>)}

ReaderRespondTags ==
    /\ tx # <<>>
    /\ rx = <<>>
    /\ tx' = Tail(tx)
    /\ \E f \in (IF At(Head(tx), 2) = CMD_POLL THEN ReadTags ELSE {}) \cup {<<>>} :
          /\ rx' = f
          /\ f # <<>> => env.replies > 0
          /\ env' = [env EXCEPT !.replies = IF f = <<>> THEN @ ELSE @ - 1]
    /\ UNCHANGED <<rfid, res, call, sysVars, otaVars>>

InitReadWith(commands) ==
    /\ rfid = NewDriver
    /\ rx = <<>>
    /\ tx = <<>>
    /\ res = NoRes
    /\ call = NoSend
    /\ env = [arrivals |-> 0, lastFrame |-> <<>>, probe |-> NoProbe, seen |-> <<>>,
              run |-> 0, resync |-> FALSE, hiStore |-> -1,
              cmds |-> commands, toggles |-> TriggerToggles, replies |-> ReadReplies]
    /\ InitSys
    /\ InitOta

InitRead == InitReadWith(0)

NextRead ==
    \/ rfidTask
    \/ WriterTake \/ WriterCrit \/ WriterCheck
    \/ bluetoothTask \/ buzzerTask
    \/ ReaderRespondTags \/ ButtonPress \/ ButtonRelease

SpecRead == InitRead /\ [][NextRead]_vars

\* the client sends changeMode commands only
ModeCallbacks ==
    \/ \E cmd \in {c \in AppCommands : c.type = "changeMode"} : AppReceive(cmd)
    \/ AppTake
    \/ AppCrit
    \/ AppNotify

InitReadModes == InitReadWith(ModeChanges)

NextReadModes == NextRead \/ ModeCallbacks

SpecReadModes == InitReadModes /\ [][NextReadModes]_vars

(***************************************************************************)
(* The armed firmware with a reader whose error frames carry any code:     *)
(* besides 0x10 the codes 0x00 and 0x01, the values writeStatus has for    *)
(* "no response yet" and for "written".                                    *)
(***************************************************************************)
ErrorCodes == {0, 1, 16}

AnyReplies(command) ==
    IF At(command, 2) = CMD_WRITE
    THEN {AckFrame, <<>>} \cup {ErrFrame(c) : c \in ErrorCodes}
    ELSE Replies(command)

ReaderRespondAny ==
    /\ tx # <<>>
    /\ rx = <<>>
    /\ tx' = Tail(tx)
    /\ \E f \in AnyReplies(Head(tx)) :
          /\ rx' = f
          /\ f # <<>> => env.replies > 0
          /\ env' = [env EXCEPT !.replies = IF f = <<>> THEN @ ELSE @ - 1]
    /\ UNCHANGED <<rfid, res, call, sysVars, otaVars>>

NextCodes ==
    \/ RfidTake \/ RfidCrit \/ RfidCheck
    \/ rfidWriteTask \/ bluetoothTask \/ buzzerTask
    \/ ReaderRespondAny \/ ButtonPress \/ ButtonRelease

SpecCodes == InitArmed /\ [][NextCodes]_vars /\ WF_vars(rfidWriteTask)

(***************************************************************************)
(* OTA: the callback of the OTA characteristic and otaTask (ble_comm.cpp)  *)
(***************************************************************************)
\* cap of the size of /update.bin and of the count of received bytes
MaxBytes == 4

\* the values a client puts in its commands
OtaPartCounts == {1, 2}

OtaMTUs == {2}

OtaFileSizes == {2, 4}

OtaPartLens == {2}

OtaPartIndexes == {0, 1}

\* notifications of otaTask (first byte)
NOTIFY_FASTMODE == 170

NOTIFY_SIZE == 239

NOTIFY_REQUEST == 241

NOTIFY_COMPLETE == 242

\* writeBinary: append len bytes to /update.bin, clear writeFile, count
\* len bytes; nothing changes when the file cannot be opened; file.write
\* may store fewer bytes than asked (here: none), its result is not read
writeBinary(o, fl, len) ==
    { [ota |-> o, flash |-> fl] }
    \cup
    { [ota |-> [o EXCEPT !.writeFile = FALSE, !.rParts = @ + len],
       flash |-> [fl EXCEPT !.size = (IF @ < 0 THEN 0 ELSE @) + n]] : n \in {0, len} }

\* rParts == tParts: the 5 s sleep before updateFromFS; else writeFile = true
Compare(o, fl, t) ==
    IF o.rParts = o.tParts
    THEN [ota |-> o, flash |-> fl, ot |-> [t EXCEPT !.pc = "apply"]]
    ELSE [ota |-> [o EXCEPT !.writeFile = TRUE], flash |-> fl,
          ot |-> [t EXCEPT !.pc = "switch"]]

\* if (writeFile) writeBinary(.., current ? updater2 : updater, ..): the call
\* is entered with the buffer and the length chosen now; ret tells what
\* follows the call ("compare" in OTA_MODE, the end of the iteration else)
FlushPart(o, fl, t, ret) ==
    IF o.writeFile
    THEN [ota |-> o, flash |-> fl,
          ot |-> [t EXCEPT !.pc = "flush", !.ret = ret,
                           !.buf = IF ~o.current THEN "updater" ELSE "updater2",
                           !.len = IF ~o.current THEN o.writeLen ELSE o.writeLen2]]
    ELSE IF ret = "compare" THEN Compare(o, fl, t)
    ELSE [ota |-> o, flash |-> fl, ot |-> [t EXCEPT !.pc = "switch"]]

\* the rest of an iteration in UPDATE_MODE after the completion notice
AfterComplete(o, fl, t) == FlushPart(o, fl, t, "switch")

\* the rest of an iteration in UPDATE_MODE after the request notice
AfterRequest(o, fl, t) ==
    IF o.cur + 1 = o.parts
    THEN [ota |-> o, flash |-> fl,
          ot |-> [t EXCEPT !.pc = "complete", !.notified = NOTIFY_COMPLETE,
                           !.part = o.cur + 1]]
    ELSE AfterComplete(o, fl, t)

\* one step of otaTask to one of the outcomes in S
OtaStep(S) ==
    /\ \E r \in S :
          /\ r.flash.size <= MaxBytes
          /\ r.ota.rParts <= MaxBytes
          /\ ota' = r.ota
          /\ flash' = r.flash
          /\ ot' = r.ot
    /\ UNCHANGED <<drvVars, sysVars, bluetoothConnected, client>>

\* case NORMAL_MODE, up to the first delay
OtaNormal ==
    /\ ot.pc = "switch"
    /\ ota.OTA_STATE = NORMAL_MODE
    /\ OtaStep({[ota |-> ota, flash |-> flash,
                 ot |-> IF bluetoothConnected /\ ota.sendMode
                        THEN [ot EXCEPT !.pc = "sendMode", !.notified = NOTIFY_FASTMODE]
                        ELSE IF bluetoothConnected /\ ota.sendSize
                        THEN [ot EXCEPT !.pc = "sendSize", !.notified = NOTIFY_SIZE]
                        ELSE ot]})

\* after the delay: sendMode = false, then the size notice if asked for
OtaSendModeDone ==
    /\ ot.pc = "sendMode"
    /\ OtaStep({[ota |-> [ota EXCEPT !.sendMode = FALSE], flash |-> flash,
                 ot |-> IF ota.sendSize
                        THEN [ot EXCEPT !.pc = "sendSize", !.notified = NOTIFY_SIZE]
                        ELSE [ot EXCEPT !.pc = "switch"]]})

OtaSendSizeDone ==
    /\ ot.pc = "sendSize"
    /\ OtaStep({[ota |-> [ota EXCEPT !.sendSize = FALSE], flash |-> flash,
                 ot |-> [ot EXCEPT !.pc = "switch"]]})

\* case UPDATE_MODE, up to the first delay or call of writeBinary
OtaUpdate ==
    /\ ot.pc = "switch"
    /\ ota.OTA_STATE = UPDATE_MODE
    /\ OtaStep({IF ota.request
                THEN [ota |-> ota, flash |-> flash,
                      ot |-> [ot EXCEPT !.pc = "request", !.notified = NOTIFY_REQUEST,
                                       !.part = ota.cur + 1]]
                ELSE AfterRequest(ota, flash, ot)})

OtaRequestDone ==
    /\ ot.pc = "request"
    /\ OtaStep({AfterRequest([ota EXCEPT !.request = FALSE], flash, ot)})

OtaCompleteDone ==
    /\ ot.pc = "complete"
    /\ OtaStep({AfterComplete([ota EXCEPT !.OTA_STATE = OTA_MODE], flash, ot)})

\* case OTA_MODE: the pending part is written, then received and expected
\* bytes are compared
OtaFinish ==
    /\ ot.pc = "switch"
    /\ ota.OTA_STATE = OTA_MODE
    /\ OtaStep({FlushPart(ota, flash, ot, "compare")})

\* writeBinary returns
OtaFlush ==
    /\ ot.pc = "flush"
    /\ LET t == [ot EXCEPT !.buf = "", !.len = 0, !.ret = ""]
       IN  OtaStep({IF ot.ret = "compare"
                    THEN Compare(r.ota, r.flash, t)
                    ELSE [ota |-> r.ota, flash |-> r.flash,
                          ot |-> [t EXCEPT !.pc = "switch"]] :
                        r \in writeBinary(ota, flash, ot.len)})

\* updateFromFS after the 5 s: without a file it returns; with one it hands
\* a non-empty file to performUpdate, removes it and restarts the chip
updateFromFS ==
    /\ ot.pc = "apply"
    /\ IF flash.size < 0
       THEN /\ ot' = [ot EXCEPT !.pc = "switch"]
            /\ UNCHANGED <<ota, flash, bluetoothConnected>>
       ELSE /\ flash' = [size |-> -1,
                         image |-> IF flash.size > 0 THEN flash.size ELSE flash.image]
            /\ ota' = InitOtaGlobals
            /\ ot' = InitOt
            /\ bluetoothConnected' = FALSE
    /\ UNCHANGED <<drvVars, sysVars, client>>

otaTask ==
    \/ OtaNormal \/ OtaSendModeDone \/ OtaSendSizeDone
    \/ OtaUpdate \/ OtaRequestDone \/ OtaCompleteDone
    \/ OtaFinish \/ OtaFlush \/ updateFromFS

\* the buffer the 0xFB opcode stores into
FillBuffer == IF ota.current THEN "updater" ELSE "updater2"

\* 0xFB pos data: len - 2 bytes into the current buffer at pos * MTU
OtaPartData(pos, n) ==
    /\ bluetoothConnected
    /\ ota' = IF ota.current
              THEN [ota EXCEPT !.updater = Max(@, pos * ota.MTU + n)]
              ELSE [ota EXCEPT !.updater2 = Max(@, pos * ota.MTU + n)]
    /\ UNCHANGED <<drvVars, sysVars, flash, ot, bluetoothConnected>>

\* 0xFC len cur: the part is complete
OtaPartEnd(len, c) ==
    /\ bluetoothConnected
    /\ ota' = [ota EXCEPT !.writeLen = IF ota.current THEN len ELSE @,
                          !.writeLen2 = IF ota.current THEN @ ELSE len,
                          !.current = ~ota.current,
                          !.cur = c,
                          !.writeFile = TRUE,
                          !.request = IF c < ota.parts - 1 THEN TRUE ELSE @]
    /\ UNCHANGED <<drvVars, sysVars, flash, ot, bluetoothConnected>>

\* A faulty variant of the 0xFD handler (the file is left in place):
\* ImageFileRemoved does not hold of a callback built on it
OtaStartKeepsFile ==
    /\ bluetoothConnected
    /\ ota' = [ota EXCEPT !.sendMode = TRUE]
    /\ UNCHANGED <<drvVars, sysVars, flash, ot, bluetoothConnected>>

\* 0xFD: start, an old /update.bin is removed
OtaStart ==
    /\ bluetoothConnected
    /\ ota' = [ota EXCEPT !.sendMode = TRUE]
    /\ flash' = [flash EXCEPT !.size = -1]
    /\ UNCHANGED <<drvVars, sysVars, ot, bluetoothConnected>>

\* 0xFE size: the expected number of bytes
OtaFileSize(size) ==
    /\ bluetoothConnected
    /\ ota' = [ota EXCEPT !.rParts = 0, !.tParts = size]
    /\ UNCHANGED <<drvVars, sysVars, flash, ot, bluetoothConnected>>

\* 0xFF parts MTU
OtaPartCount(p, mtu) ==
    /\ bluetoothConnected
    /\ ota' = [ota EXCEPT !.parts = p, !.MTU = mtu, !.OTA_STATE = UPDATE_MODE]
    /\ UNCHANGED <<drvVars, sysVars, flash, ot, bluetoothConnected>>

\* 0xEF: format the flash
OtaFormat ==
    /\ bluetoothConnected
    /\ ota' = [ota EXCEPT !.sendSize = TRUE]
    /\ flash' = [flash EXCEPT !.size = -1]
    /\ UNCHANGED <<drvVars, sysVars, ot, bluetoothConnected>>

\* a client that writes any opcode at any time
OtaCallbacks ==
    /\ \/ \E n \in OtaPartLens : OtaPartData(0, n)
       \/ \E len \in OtaPartLens, c \in OtaPartIndexes : OtaPartEnd(len, c)
       \/ OtaStart
       \/ \E size \in OtaFileSizes : OtaFileSize(size)
       \/ \E p \in OtaPartCounts, mtu \in OtaMTUs : OtaPartCount(p, mtu)
       \/ OtaFormat
    /\ client.writes > 0
    /\ client' = [client EXCEPT !.writes = @ - 1]

onConnect ==
    /\ ~bluetoothConnected
    /\ bluetoothConnected' = TRUE
    /\ UNCHANGED <<drvVars, sysVars, ota, flash, ot, client>>

onDisconnect ==
    /\ bluetoothConnected
    /\ bluetoothConnected' = FALSE
    /\ UNCHANGED <<drvVars, sysVars, ota, flash, ot, client>>

NextOta == otaTask \/ OtaCallbacks \/ onConnect \/ onDisconnect

SpecOta == Init /\ [][NextOta]_vars

(***************************************************************************)
(* The callback with part indexes and MTUs of the size a client can put in *)
(* the opcodes: pos is one byte, MTU two bytes.  The field updater         *)
(* (updater2) of ota is the count of cells from the start of the buffer up *)
(* to the highest one written.                                             *)
(***************************************************************************)
\* uint8_t updater[16384]; uint8_t updater2[16384];
UPDATER_SIZE == 16384

StageMTUs == {2, 512}

StagePositions == {0, 1, 32, 255}

StageCallbacks ==
    /\ \/ \E pos \in StagePositions, n \in OtaPartLens : OtaPartData(pos, n)
       \/ \E len \in OtaPartLens, c \in OtaPartIndexes : OtaPartEnd(len, c)
       \/ \E p \in OtaPartCounts, mtu \in StageMTUs : OtaPartCount(p, mtu)
    /\ client.writes > 0
    /\ client' = [client EXCEPT !.writes = @ - 1]

NextStage == StageCallbacks \/ onConnect \/ onDisconnect

SpecStage == Init /\ [][NextStage]_vars

(***************************************************************************)
(* A client that sends one transfer: start, size, part count, then the     *)
(* parts, each with its data and its chunk-complete; it does not wait for  *)
(* the firmware's requests.                                                *)
(***************************************************************************)
ClientStart ==
    /\ client.pc = "idle"
    /\ OtaStart
    /\ client' = [client EXCEPT !.pc = "started"]

ClientSize(size) ==
    /\ client.pc = "started"
    /\ OtaFileSize(size)
    /\ client' = [client EXCEPT !.pc = "sized", !.size = size]

ClientParts(p, mtu) ==
    /\ client.pc = "sized"
    /\ OtaPartCount(p, mtu)
    /\ client' = [client EXCEPT !.pc = "parts", !.parts = p]

ClientData(n) ==
    /\ client.pc = "parts"
    /\ client.done < client.parts
    /\ OtaPartData(0, n)
    /\ UNCHANGED client

ClientPartEnd(len) ==
    /\ client.pc = "parts"
    /\ client.done < client.parts
    /\ OtaPartEnd(len, client.done)
    /\ client' = [client EXCEPT !.done = @ + 1, !.bytes = @ + len]

OtaClient ==
    \/ ClientStart
    \/ \E size \in OtaFileSizes : ClientSize(size)
    \/ \E p \in OtaPartCounts, mtu \in OtaMTUs : ClientParts(p, mtu)
    \/ \E n \in OtaPartLens : ClientData(n)
    \/ \E len \in OtaPartLens : ClientPartEnd(len)

NextTransfer == otaTask \/ OtaClient \/ onConnect

\* otaTask is a task of the scheduler: its loop goes on
SpecTransfer == Init /\ [][NextTransfer]_vars /\ WF_vars(otaTask)

(***************************************************************************)
(* A client that follows the flow control: it sends part 0 unasked and     *)
(* each later part only once otaTask has notified the request for it.      *)
(***************************************************************************)
PacedParts == 3

PacedPartLen == 1

\* the last notification is the request for the part the client is to send
ClientWaits ==
    \/ client.done = 0
    \/ ot.notified = NOTIFY_REQUEST /\ ot.part = client.done

PacedData == ClientWaits /\ ClientData(PacedPartLen)

PacedPartEnd == ClientWaits /\ ClientPartEnd(PacedPartLen)

PacedClient ==
    \/ ClientStart
    \/ ClientSize(PacedParts * PacedPartLen)
    \/ ClientParts(PacedParts, PacedPartLen)
    \/ PacedData
    \/ PacedPartEnd

NextPaced == otaTask \/ PacedClient \/ onConnect

\* otaTask is a task of the scheduler: its loop goes on
SpecPaced == Init /\ [][NextPaced]_vars /\ WF_vars(otaTask)

(***************************************************************************)
(* Properties of the OTA session (SpecOta)                                 *)
(***************************************************************************)
\* the step of otaTask that calls updateFromFS
ApplyStep == ot.pc = "apply" /\ ot'.pc # "apply"

\* C2: the image-apply routine is invoked only in a state where the
\* received bytes (rParts) equal the expected bytes (tParts).
ApplyOnlyWhenComplete == [][ApplyStep => ota.rParts = ota.tParts]_vars

\* the client has completed all the parts it declared
AllPartsSent == client.pc = "parts" /\ client.done = client.parts

\* all declared parts are complete, and the flushed lengths sum to the
\* announced size
TransferComplete ==
    /\ AllPartsSent
    /\ client.bytes = client.size
    /\ ota.tParts = client.size
    /\ ota.rParts = client.size

\* otaTask emits the notification n
Emits(n) == ot'.notified = n /\ ot' # ot /\ ot'.pc \notin {"switch", "flush", "apply"}

\* C15: once all declared parts are complete and the flushed lengths sum
\* to the announced size, the session goes on to apply the image, and no
\* request for a chunk (0xF1) is emitted after the last chunk-complete.
CompleteTransferFinalizes ==
    /\ (TransferComplete ~> ot.pc = "apply")
    /\ [][(AllPartsSent /\ client.bytes = client.size) => ~Emits(NOTIFY_REQUEST)]_vars

\* every declared part is complete and their lengths sum to less than the
\* announced size
ShortTransfer == AllPartsSent /\ client.bytes < client.size

\* C16: when all declared parts are complete and the bytes received are
\* still fewer than the announced size, the session does not go on to
\* finalize (it neither leaves the transferring state nor applies the
\* image), and a re-request for chunk data is emitted.
ShortTransferRerequests ==
    /\ [](ShortTransfer => (ota.OTA_STATE # OTA_MODE /\ ot.pc # "apply"))
    /\ (ShortTransfer ~> (ot.pc = "request" /\ ot.notified = NOTIFY_REQUEST))

\* C17: when every declared part is nominally received the engine appends
\* no staging buffer a second time while it waits: the bytes counted in
\* rParts, and the bytes of the image file, never exceed the bytes the
\* chunk-completes of the client have declared.
MismatchWaits ==
    AllPartsSent => (ota.rParts <= client.bytes /\ flash.size <= client.bytes)

\* bytes in the image file (none when the file is absent)
FileBytes(fl) == IF fl.size < 0 THEN 0 ELSE fl.size

\* C18: while the transfer goes on (every step but the restart after the
\* update), rParts never decreases, and when it grows it grows by the
\* bytes the step has appended to the image file.
ReceivedCountsAppends ==
    [][ot.pc # "apply" =>
          /\ ota'.rParts >= ota.rParts
          /\ ota'.rParts - ota.rParts = FileBytes(flash') - FileBytes(flash)]_vars

\* the step stores chunk data into the staging buffer b
DataWritten(b) ==
    IF b = "updater" THEN ota'.updater # ota.updater ELSE ota'.updater2 # ota.updater2

\* C19: while writeBinary is appending a staging buffer, no chunk-data
\* write stores into that buffer.
FlushAndFillApart == [][ot.pc = "flush" => ~DataWritten(ot.buf)]_vars

\* the session is idle with nothing left of a transfer
SessionCleared ==
    /\ ota.OTA_STATE = NORMAL_MODE
    /\ ota.parts = 0 /\ ota.cur = 0
    /\ ota.rParts = 0 /\ ota.tParts = 0
    /\ ~ota.writeFile /\ ~ota.request
    /\ flash.size < 0

\* C20: after the handler of the reset opcode 0xFD, in whatever state it
\* was called, the counters and the pending flags are cleared, there is no
\* partial image file and the session is idle.
ResetClearsSession == [][OtaStart => SessionCleared']_vars

\* the chunk-complete of part k has been handled and part k is not the last
PartCompleted(k) ==
    client.pc = "parts" /\ client.done = k + 1 /\ ota.cur = k /\ k < ota.parts - 1

\* C32: every byte of a 0xFB opcode is stored inside the staging buffer:
\* the highest cell written in updater and in updater2 lies below
\* UPDATER_SIZE
StagingInBounds ==
    /\ ota.updater <= UPDATER_SIZE
    /\ ota.updater2 <= UPDATER_SIZE

\* the staging buffer the k-th chunk-complete of a transfer closes (k from
\* 0): current is true at the start and every 0xFC flips it
StagingOf(k) == IF k % 2 = 0 THEN "updater" ELSE "updater2"

\* the number of chunks whose length has been counted in rParts, the chunks
\* of the client being of one length
ChunksFlushed ==
    IF client.done = 0 THEN 0 ELSE ota.rParts \div (client.bytes \div client.done)

\* C33: when otaTask enters writeBinary while a completed chunk has not been
\* appended yet, it appends the staging buffer of the oldest such chunk
NoChunkSkipped ==
    [][(ot.pc # "flush" /\ ot'.pc = "flush" /\ ChunksFlushed < client.done) =>
          ot'.buf = StagingOf(ChunksFlushed)]_vars

\* the step hands /update.bin to performUpdate
ImageApplied == ot.pc = "apply" /\ flash.size > 0 /\ flash'.image = flash.size /\ flash'.size < 0

\* C34: rParts is the number of bytes in /update.bin in every state, and
\* when the image is applied the size of the file is rParts and tParts
AppliedSizeIsReceived ==
    /\ [](FileBytes(flash) = ota.rParts)
    /\ [][ImageApplied => (flash.size = ota.rParts /\ flash.size = ota.tParts)]_vars

\* C35: otaTask emits the completion notice 0xF2, and sets OTA_STATE to
\* OTA_MODE, only when the client has completed the last of the parts it
\* declared since its 0xFD
CompleteAfterLastPart ==
    [][(Emits(NOTIFY_COMPLETE) \/ (ota.OTA_STATE # OTA_MODE /\ ota'.OTA_STATE = OTA_MODE)) =>
          (client.done >= 1 /\ client.done = client.parts)]_vars

\* C21: every chunk-complete of a part that is not the last is followed
\* by the notification of the request for the next part.
RequestFollowsPart ==
    \A k \in 0..(PacedParts - 2) :
        PartCompleted(k) ~> (ot.notified = NOTIFY_REQUEST /\ ot.part = k + 1)

WriteOutstanding == wt.pc = "wait" /\ ~EpcRejected(wt.epcToSend)

\* the step of rfidTask that calls singlePoll
PollStep == rt.pc = "check" /\ rt'.pc = "win"

\* C1: from the transmission of a write command until the attempt
\* concludes (acknowledgement, error frame or the end of the 800 ms),
\* rfidTask transmits no poll.
NoPollDuringWrite == [][WriteOutstanding => ~PollStep]_vars

\* what a step of a producer at its xQueueSend may do: stay blocked for one
\* more tick, queue the message, or give up on a full queue when the ticks
\* are used up; in the last two cases the producer goes on
SendStep(p, q, ticks, after) ==
    (p.pc = "send" /\ p' # p) =>
        \/ /\ p'.pc = "send"
           /\ p'.waited = p.waited + 1
           /\ Len(jsonDataQueue) = QUEUE_LENGTH
           /\ jsonDataQueue' = jsonDataQueue
        \/ /\ p'.pc = after
           /\ p'.sent = "pdTRUE"
           /\ jsonDataQueue' = Append(jsonDataQueue, p.msg)
        \/ /\ p'.pc = after
           /\ p'.sent = "errQUEUE_FULL"
           /\ p.waited = ticks
           /\ Len(jsonDataQueue) = QUEUE_LENGTH
           /\ jsonDataQueue' = jsonDataQueue

QueueBounded ==
    /\ Len(jsonDataQueue) <= QUEUE_LENGTH
    /\ rt.pc = "send" => rt.waited <= READ_SEND_TICKS
    /\ wt.pc = "send" => wt.waited <= WRITE_SEND_TICKS

\* C10: jsonDataQueue never holds more than QUEUE_LENGTH messages; a
\* producer at a full queue waits at most 5 (rfidTask) or 10 (rfidWriteTask)
\* ticks, then drops its message and goes on, whatever bluetoothTask does.
BoundedQueueProducersGoOn ==
    /\ []QueueBounded
    /\ [][SendStep(rt, jsonDataQueue, READ_SEND_TICKS, "buzz")]_vars
    /\ [][SendStep(wt, jsonDataQueue, WRITE_SEND_TICKS, "lock")]_vars

\* rfidTask has just dropped a message after its 5 ticks, while
\* rfidWriteTask is blocked at the full queue with its 10 ticks used up
ProducersAtFullQueue ==
    /\ Len(jsonDataQueue) = QUEUE_LENGTH
    /\ rt.pc = "buzz"
    /\ rt.sent = "errQUEUE_FULL"
    /\ wt.pc = "send"
    /\ wt.waited = WRITE_SEND_TICKS

\* a party waiting for writeDataMutex can go on although the mutex is held:
\* its take returns after a bounded wait
WaitEnds(pc, take) == (pc = "take" /\ writeDataMutex # "free") => take

\* C11: every acquisition of writeDataMutex, by rfidTask, rfidWriteTask and
\* the BLE application callback, has a bounded timeout: whoever waits for a
\* held mutex has a step to take without the holder releasing it.
MutexWaitsBounded ==
    /\ WaitEnds(rt.pc, ENABLED RfidTake)
    /\ WaitEnds(wt.pc, ENABLED WriterTake)
    /\ WaitEnds(app.pc, ENABLED AppTake)

\* C12: a write attempt whose 800 ms window ended without a response is
\* never counted as success, and a cycle whose attempts all timed out is
\* reported with status error.
TimeoutIsFailure ==
    /\ [][wt.pc = "expired" => ~wt'.success]_vars
    /\ []((wt.pc = "send" /\ wt.timeouts = wt.attempts) => wt.msg.status = "error")

\* C13: every write cycle terminates: at most 5 attempts, none after a
\* success, every attempt and the cycle itself come to an end, and the
\* cycle hands exactly one outcome message to the queue (the message is
\* handed over when the cycle reaches its last step, and only then).
WriteCycleTerminates ==
    /\ [](wt.attempts <= MAX_ATTEMPTS)
    /\ [][(wt.pc = "attempt" /\ wt'.pc = "wait") => ~wt.success]_vars
    /\ [](wt.pc = "lock" <=> wt.sent # "none")
    /\ [][(wt.pc = "send" /\ wt'.pc # "send") => wt'.pc = "lock"]_vars
    /\ (wt.pc = "wait" ~> wt.pc \in {"verify", "expired"})
    /\ (wt.pc = "attempt" ~> wt.pc = "lock")

\* a cycle that used all 5 attempts has handed over its error message
WriteCycleWitness ==
    /\ wt.pc = "lock"
    /\ wt.attempts = MAX_ATTEMPTS
    /\ wt.timeouts = MAX_ATTEMPTS
    /\ wt.sent = "pdTRUE"

\* the outcome message of a cycle whose attempts all ended without response
TimeoutOutcome ==
    [type |-> "feedback", status |-> "error", uid |-> <<>>,
     message |-> WriteErrorMessage(0)]

\* C14: a cycle that fails with an error frame of the reader (writeStatus
\* holds its code when the cycle reports) is surfaced with an outcome that
\* differs from the outcome of a cycle that failed by timeout.
ErrorDistinctFromTimeout ==
    [][(wt.pc = "report" /\ wt'.pc = "send" /\ rfid.writeStatus # 0)
         => wt'.msg # TimeoutOutcome]_vars

\* the step of rfidTask that calls processIncomingData: the idle cleanup
\* with bytes available, or the call in the 60 ms window that returns a tag
\* to notify
RfidReads ==
    \/ rt.pc = "check" /\ ~rt.isWriteMode /\ rt'.pc = "take" /\ rx # <<>>
    \/ rt.pc = "win" /\ rt'.pc = "send"

\* the step of rfidWriteTask that transmits the write command
WriterTransmits == wt.pc = "attempt" /\ wt'.pc = "wait"

\* the step of rfidWriteTask whose processIncomingData dispatches the
\* response that ends the 800 ms loop
WriterReads == wt.pc = "wait" /\ wt'.pc = "verify" /\ rfid' # rfid

\* C22: while writeMode is true rfidTask neither transmits nor calls
\* processIncomingData, and rfidWriteTask transmits and reads only while
\* writeMode is true.
UartMultiplexedByMode ==
    [][/\ writeMode => ~(PollStep \/ RfidReads)
       /\ (WriterTransmits \/ WriterReads) => writeMode]_vars

\* C28: writeDataMutex is held for the critical section only: the step its
\* holder takes next gives it back, and that step is not a transmit on the
\* reader's UART, a queue send or a give of buzzerSemaphore; while it is held
\* the holder is in no call that waits (a console or UART transmit, a notify,
\* a delay)
MutexHeldOnlyForCopy ==
    [][/\ (writeDataMutex = "rfidTask" /\ rt' # rt) =>
              (writeDataMutex' = "free" /\ UNCHANGED <<tx, jsonDataQueue, buzzerSemaphore>>)
       /\ (writeDataMutex = "rfidWriteTask" /\ wt' # wt) =>
              (writeDataMutex' = "free" /\ UNCHANGED <<tx, jsonDataQueue, buzzerSemaphore>>)
       /\ (writeDataMutex = "onWrite" /\ app' # app) =>
              (writeDataMutex' = "free" /\ UNCHANGED <<tx, jsonDataQueue, buzzerSemaphore>>)]_vars

\* the frames dispatched by the step, when it is a call of
\* processIncomingData in the 800 ms loop of an attempt
WaitDispatched ==
    IF wt.pc = "wait" /\ wt'.pc # "expired" /\ (rfid' # rfid \/ rx' # rx)
    THEN processIncomingData(rfid, rx).frames
    ELSE <<>>

\* C31: in an attempt writeStatus becomes 1 (the value reported as success)
\* only by the dispatch of a frame with command 0x49, and the dispatch of an
\* error frame (command 0xFF) leaves writeStatus neither 1 (success) nor 0
\* (no response yet)
ErrorNeverSuccess ==
    [][/\ (wt.pc = "wait" /\ rfid.writeStatus # 1 /\ rfid'.writeStatus = 1) =>
              \E i \in 1..Len(WaitDispatched) : WaitDispatched[i][3] = CMD_WRITE
       /\ (WaitDispatched # <<>> /\ WaitDispatched[Len(WaitDispatched)][3] = CMD_ERROR) =>
              rfid'.writeStatus \notin {0, 1}]_vars

\* C36: dataToRecord is non-empty only while writeMode is true
DataOnlyInWriteMode == dataToRecord # <<>> => writeMode

\* a writeData command has been stored in write mode
DataOnlyInWriteModeWitness ==
    /\ app.pc = "notify"
    /\ app.cmd.type = "writeData"
    /\ dataToRecord = app.cmd.content
    /\ writeMode

\* the trigger goes from released to pressed while write mode is active with
\* pending data
ArmedPress == button = "HIGH" /\ button' = "LOW" /\ writeMode /\ dataToRecord # <<>>

\* rfidWriteTask starts a write cycle
CycleStart == wt.pc = "check" /\ wt'.pc = "attempt"

\* C37: a press in write mode with pending data finds rfidWriteTask able to
\* start a cycle for it: no cycle is under way and triggerLocked is clear
\* (the lock is cleared only when the task samples the trigger released, so a
\* press that finds it set, or about to be set, starts no cycle); a cycle
\* starts only with the lock clear, and the lock is cleared only while the
\* trigger is released
OneCyclePerPress ==
    /\ [][ArmedPress => (~wt.triggerLocked /\ wt.pc \in {"take", "crit", "check"})]_vars
    /\ [][CycleStart => (~wt.triggerLocked /\ button = "LOW")]_vars
    /\ [][(wt.triggerLocked /\ ~wt'.triggerLocked) => button = "HIGH"]_vars

\* the EPC decoded by the step, when the step is a call of
\* processIncomingData in the 60 ms window of rfidTask that returns a tag
WindowDecodes == rt.pc = "win" /\ rx' # rx /\ processIncomingData(rfid, rx).ret

DecodedEPC == processIncomingData(rfid, rx).tag.epc

\* C38: a decode in the window leads to a notification attempt exactly when
\* its EPC differs from lastEPC, which is the EPC decoded just before (every
\* decode leaves its EPC in lastEPC, and lastEPC is cleared only while the
\* trigger is released); the notification carries the decoded EPC, and no
\* other step of rfidTask starts a notification
NotifyOnlyOnChange ==
    /\ [][WindowDecodes =>
             /\ (rt'.pc = "send") <=> (DecodedEPC # rt.lastEPC)
             /\ rt'.lastEPC = DecodedEPC
             /\ rt'.pc = "send" => rt'.msg.uid = DecodedEPC]_vars
    /\ [][(rt.pc # "send" /\ rt'.pc = "send") => WindowDecodes]_vars
    /\ [][(rt.lastEPC # <<>> /\ rt'.lastEPC = <<>>) => button = "HIGH"]_vars

\* the reader has notified the same tag twice while the trigger was held:
\* both frames are decoded, the second one without a notification
NotifyOnlyOnChangeWitness ==
    /\ env.toggles = TriggerToggles - 1
    /\ env.replies = 0
    /\ rx = <<>>
    /\ rt.pc = "win"
    /\ rfid._bufferIndex = 0
    /\ rfid._buffer = TagFrame(200, <<17, 34>>)
    /\ rt.lastEPC = processIncomingData(NewDriver, TagFrame(200, <<17, 34>>)).tag.epc
    /\ Len(jsonDataQueue) <= 1

\* C39: every iteration of rfidTask that finds the trigger released leaves
\* the filter lastEPC cleared, in read mode and in write mode, so that the
\* first tag decoded after the next press differs from it
ReleaseClearsFilter ==
    [][(rt.pc = "check" /\ rt'.pc = "take" /\ button = "HIGH") => rt'.lastEPC = <<>>]_vars

\* C40: no step of rfidWriteTask changes writeMode or dataToRecord, and
\* every write cycle, the second as the first, is started with the EPC made
\* of the pending data
WriteCycleKeepsData ==
    /\ [][(wt' # wt) => UNCHANGED <<writeMode, dataToRecord>>]_vars
    /\ [][CycleStart => (writeMode /\ wt'.epcToSend = EpcToSend(dataToRecord))]_vars

\* a second write cycle is running while the outcome of the first is still
\* in the queue
WriteCycleKeepsDataWitness ==
    /\ wt.pc = "wait"
    /\ jsonDataQueue # <<>>
    /\ writeMode
    /\ tx # <<>>

\* C26: the count of buzzerSemaphore is 0 or 1; a task at a give of
\* buzzerSemaphore goes on whatever the count is; and each take of
\* buzzerTask (one beep) uses up the pending signal, so that the next
\* beep needs another give.
BuzzerIsEdgeSignal ==
    /\ [](buzzerSemaphore \in {0, 1})
    /\ [](rt.pc = "buzz" => ENABLED RfidBuzz)
    /\ [](wt.pc = "beep" => ENABLED WriterBeep)
    /\ [](app.pc = "notify" => ENABLED AppNotify)
    /\ [][buzzerSemaphore' < buzzerSemaphore => buzzerSemaphore' = 0]_vars
    /\ [][buzzerSemaphore' > buzzerSemaphore => buzzerSemaphore = 0]_vars

\* a signal is pending while rfidWriteTask is at its second give and the
\* BLE callback at its give
BuzzerWitness == buzzerSemaphore = 1 /\ wt.pc = "beep" /\ app.pc = "notify"

\* C27: writeStatus is 0 when a write command goes out, and from then until
\* rfidWriteTask has read it, it changes only when received bytes are
\* dispatched: what the task reads as the result of the attempt was set by
\* a frame dispatched after the reset.
StatusResetBeforeAttempt ==
    /\ [][WriterTransmits => rfid'.writeStatus = 0]_vars
    /\ [][(wt.pc \in {"wait", "verify", "expired"}
           /\ rfid'.writeStatus # rfid.writeStatus) => Len(rx') < Len(rx)]_vars

\* the first attempt was answered by an error frame and the second
\* command has gone out: the error code of the first is no longer there
StatusResetWitness ==
    /\ wt.pc = "wait"
    /\ wt.attempts = 2
    /\ wt.timeouts = 0
    /\ rfid.writeStatus = 0

(***************************************************************************)
(* Properties of the receive path (SpecDrv)                                *)
(***************************************************************************)
LastFrame == res.frames[Len(res.frames)]

DeclaredLen(f) == At(f, 3) * 256 + At(f, 4)

\* processIncomingData has returned a tag decoded from a complete tag
\* frame that declares n parameter bytes
TagFrameOf(n) ==
    /\ res.ret
    /\ DeclaredLen(LastFrame) = n
    /\ Len(LastFrame) = MIN_FRAME + n

\* the text consists of the digits 0-9 and the upper-case letters A-F
UpperHex(s) == \A i \in 1..Len(s) : \E k \in 1..16 : s[i] = UpperDigits[k]

\* C24 as stated: the EPC decoded from a tag frame with paramLength = 9 has
\* exactly 4 hex characters, all upper-case.
TagFrame9HasFourChars ==
    TagFrameOf(9) => (Len(res.tag.epc) = 4 /\ UpperHex(res.tag.epc))

\* C24, amended: the EPC decoded from a tag frame with paramLength = 9 has
\* exactly 8 hex characters (two for each of its 9 - 5 = 4 EPC bytes), all
\* upper-case; 4 characters are what a frame with paramLength = 7 gives.
TagFrame9HasEightChars ==
    /\ TagFrameOf(9) => (Len(res.tag.epc) = 8 /\ UpperHex(res.tag.epc))
    /\ TagFrameOf(7) => (Len(res.tag.epc) = 4 /\ UpperHex(res.tag.epc))

\* the tag frame with RSSI C9 and EPC E2 00 0A BC has been decoded
TagFrame9Witness ==
    /\ TagFrameOf(9)
    /\ res.tag.epc = <<"E", "2", "0", "0", "0", "A", "B", "C">>

\* writeStatus after the dispatch of the frame f, ws being its value before
FrameOutcome(ws, f) ==
    IF f[3] = CMD_POLL /\ f[2] = TYPE_NOTIFY THEN ws
    ELSE IF f[3] = CMD_WRITE THEN 1
    ELSE IF f[3] = CMD_ERROR THEN f[6]
    ELSE ws

RECURSIVE OutcomeAfter(_, _)
OutcomeAfter(ws, frames) ==
    IF frames = <<>> THEN ws
    ELSE OutcomeAfter(FrameOutcome(ws, Head(frames)), Tail(frames))

\* C29: the frames a call dispatches set writeStatus one after the other:
\* command 0x49 to 1, command 0xFF to the byte at offset 5 of the frame, any
\* other command (and a tag notification) leaves it; when the last byte of
\* the call dispatches a frame that is not a tag notification, _bufferIndex
\* is 0 after the call
DispatchOutcome ==
    [][CallProcessIncomingData =>
          /\ \A f \in {res'.frames[i] : i \in 1..Len(res'.frames)} : Len(f) >= MIN_FRAME
          /\ rfid'.writeStatus = OutcomeAfter(rfid.writeStatus, res'.frames)
          /\ LET before == processIncomingData(rfid, SubSeq(rx, 1, Len(rx) - 1))
                 last == ProcByte(before.drv, rx[Len(rx)])
             IN  (~before.ret /\ last.frame # <<>> /\ ~last.ret) =>
                     rfid'._bufferIndex = 0]_vars

\* an acknowledgement and then an error frame have been dispatched: the
\* outcome is the error code 0x16 and the buffer is empty
DispatchOutcomeWitness ==
    /\ Len(res.frames) >= 1
    /\ res.frames[Len(res.frames)] = ErrFrame(22)
    /\ \E i \in 1..Len(env.seen) : env.seen[i] = AckFrame
    /\ rfid.writeStatus = 22
    /\ rfid._bufferIndex = 0

\* The frame f with the byte c in the place of its checksum
WithChecksum(f, c) == [f EXCEPT ![Len(f) - 1] = c]

\* Frames in the wire format, among them an error frame without parameters
ChecksumFrames == WellFormed \cup {BuildPacket(1, CMD_ERROR, <<>>)}

ChecksumBytes == {0, 1, FRAME_HEAD, FRAME_END}

\* What a call of processIncomingData on the frame f gives: the event and
\* the driver's outcome and index
Accepted(d, f) ==
    LET r == processIncomingData(d, f)
    IN  [ret |-> r.ret, tag |-> r.tag, writeStatus |-> r.drv.writeStatus,
         _bufferIndex |-> r.drv._bufferIndex]

\* C30: two frames that differ in the checksum byte only give the same
\* event, the same outcome and the same buffer index, whatever the driver
\* has received before
ChecksumIgnored ==
    \A f \in ChecksumFrames : \A c \in ChecksumBytes :
        Accepted(rfid, f) = Accepted(rfid, WithChecksum(f, c))

\* C3: processIncomingData returns true only when the bytes accumulated are
\* a complete tag frame: header AA first, type 02, command 22, at least 7
\* bytes, footer DD last, and all the parameter bytes the frame declares.
TagOnlyOnCompleteFrame ==
    res.ret =>
        /\ Len(LastFrame) >= MIN_FRAME
        /\ At(LastFrame, 0) = FRAME_HEAD
        /\ At(LastFrame, 1) = TYPE_NOTIFY
        /\ At(LastFrame, 2) = CMD_POLL
        /\ At(LastFrame, Len(LastFrame) - 1) = FRAME_END
        /\ Len(LastFrame) >= MIN_FRAME + DeclaredLen(LastFrame)

\* C4: every store into _buffer is at an index in 0..BUF_SIZE-1 and the
\* index is back at 0 (Sync) once the buffer has filled; after BUF_SIZE
\* consecutive bytes that are neither header nor footer the driver is in
\* Sync, and the next header byte is stored at index 0.
StoresInBounds ==
    /\ env.hiStore <= BUF_SIZE - 1
    /\ res.maxStore <= BUF_SIZE - 1
    /\ rfid._bufferIndex \in 0..(BUF_SIZE - 1)
    /\ Len(rfid._buffer) <= BUF_SIZE
    /\ (env.run >= BUF_SIZE => rfid._bufferIndex = 0)
    /\ (env.resync => rfid._bufferIndex = 1 /\ At(rfid._buffer, 0) = FRAME_HEAD)

\* A partial frame was followed by BUF_SIZE noise bytes, which filled the
\* buffer up to its last cell, and then by a header byte
StoresInBoundsWitness ==
    /\ env.resync
    /\ env.hiStore = BUF_SIZE - 1
    /\ rfid._bufferIndex = 1

\* C6: after any noise or malformed bytes, a well-formed frame is
\* dispatched as it is by a freshly initialised driver: the frame itself is
\* what is dispatched last, with the same return value and the same tag.
FrameAfterNoiseAsFresh ==
    res.ended # <<>> =>
        LET fresh == processIncomingData(NewDriver, res.ended)
        IN  /\ res.frames # <<>>
            /\ LastFrame = res.ended
            /\ res.ret = fresh.ret
            /\ res.tag = fresh.tag

\* C7: a tag frame that declares more parameter bytes than were accumulated
\* is not reported, and parsePacket reads only cells of the accumulated
\* frame, all of them inside _buffer.
OversizedTagFrameRejected ==
    res.ret =>
        /\ DeclaredLen(LastFrame) <= res.frameLen - MIN_FRAME
        /\ res.lastRead < res.frameLen
        /\ res.lastRead < BUF_SIZE
        /\ res.tag.unknown = 0

(***************************************************************************)
(* Properties of the codec probe (SpecCodec)                               *)
(***************************************************************************)
\* C5: the bytes sendCommand produces for (type, cmd, params), fed to the
\* receive state machine, give exactly one dispatched frame, whose type,
\* command and parameter bytes are the original ones.
EncodeDecodeRoundTrip ==
    (env.arrivals = 1 /\ rx = <<>>) =>
        /\ Len(env.seen) = 1
        /\ At(env.seen[1], 1) = env.probe.type
        /\ At(env.seen[1], 2) = env.probe.cmd
        /\ SubSeq(env.seen[1], 6, Len(env.seen[1]) - 2) = env.probe.params

(***************************************************************************)
(* Properties of the sending operations (SpecSend)                         *)
(***************************************************************************)
\* the layout of a frame: header, big-endian length of the parameters,
\* checksum over type..params, footer
FrameLayout(f) ==
    /\ Len(f) >= MIN_FRAME
    /\ f[1] = FRAME_HEAD
    /\ f[4] * 256 + f[5] = Len(f) - MIN_FRAME
    /\ f[Len(f) - 1] = SumRange(f, 2, Len(f) - 2) % 256
    /\ f[Len(f)] = FRAME_END

\* type, command and parameters of the frame the operation op has to send
FrameFields(f, op, epc) ==
    /\ f[2] = 0
    /\ f[3] = (CASE op = "writeEPC" -> CMD_WRITE
                 [] op = "singlePoll" -> CMD_POLL
                 [] OTHER -> CMD_VERSION)
    /\ IF op = "writeEPC"
       THEN \E p \in Passwords : SubSeq(f, 6, Len(f) - 2) = WriteParams(epc, p)
       ELSE Len(f) = MIN_FRAME

OversizedCommandFails ==
    (/\ call.op = "writeEPC"
     /\ Len(BuildPacket(0, CMD_WRITE, WriteParams(call.epc, <<>>))) > PACKET_SIZE)
    => (call.sent = <<>> /\ ~call.oob)

=============================================================================
